---- MODULE Spec2Model ----
(***************************************************************************)
(* A model of the route-scoring pipeline of ml_module:                     *)
(*   - RoadSafetyScorer.calculate (analysis/road_safety_score.py) with     *)
(*     WeatherAnalyzer.get_weather_at_point (analysis/weather_analysis.py) *)
(*   - RouteAnalysisSystem.analyze_routes, _get_routes, _combine_results   *)
(*     (main.py) with generate_summary (analysis/gemini_summary.py)        *)
(*   - GeminiResilienceScorer._extract_json_from_text, _validate_scores    *)
(*     (resilience/gemini_scorer.py)                                       *)
(* Python floats are modelled as exact rationals [n, d] in lowest terms,   *)
(* text as sequences of one-character strings.                             *)
(***************************************************************************)
EXTENDS Integers, Sequences, FiniteSets, TLC

(***************************************************************************)
(* Bounds of the model.                                                    *)
(***************************************************************************)
\* longest segment list given to RoadSafetyScorer.calculate
MaxSegs == 12
\* segment lists repeat a pattern of this many freely chosen segments
PatLen == 2
\* most routes a provider returns for one request
MaxRoutes == 2

(***************************************************************************)
(* Rational arithmetic standing for Python float arithmetic.               *)
(***************************************************************************)
Abs(x) == IF x < 0 THEN -x ELSE x

RECURSIVE GCD(_, _)
GCD(a, b) == IF b = 0 THEN a ELSE GCD(b, a % b)

\* the rational n/d (d # 0) in lowest terms with a positive denominator
Rat(n, d) ==
    LET g == GCD(Abs(n), Abs(d))
        s == IF d < 0 THEN -1 ELSE 1
    IN  [n |-> (s * n) \div g, d |-> (s * d) \div g]

R(k) == [n |-> k, d |-> 1]

RAdd(a, b) ==
    LET g == GCD(a.d, b.d)
    IN  Rat(a.n * (b.d \div g) + b.n * (a.d \div g), (a.d \div g) * b.d)

RNeg(a) == [n |-> -a.n, d |-> a.d]
RSub(a, b) == RAdd(a, RNeg(b))
RMul(a, b) ==
    LET x == Rat(a.n, b.d)
        y == Rat(b.n, a.d)
    IN  [n |-> x.n * y.n, d |-> x.d * y.d]
\* a / b, b # 0
RDiv(a, b) == RMul(a, Rat(b.d, b.n))
RLe(a, b) == a.n * b.d <= b.n * a.d
RLt(a, b) == a.n * b.d < b.n * a.d
RMax(a, b) == IF RLt(a, b) THEN b ELSE a
RMin(a, b) == IF RLt(b, a) THEN b ELSE a

RECURSIVE RSum(_)
RSum(s) == IF s = <<>> THEN R(0) ELSE RAdd(Head(s), RSum(Tail(s)))

(***************************************************************************)
(* WeatherAnalyzer (analysis/weather_analysis.py).                         *)
(***************************************************************************)
RAIN_CRITICAL_MM == 50
WIND_CRITICAL_MS == 25

\* What the Open-Meteo request can do: fail (any exception), or answer with
\* the "current" readings.
WeatherResponses ==
    { [ok |-> FALSE, precipitation |-> 0, windspeed_10m |-> 0,
       temperature_2m |-> 0, cloudcover |-> 0] }
    \cup
    { [ok |-> TRUE, precipitation |-> p[1], windspeed_10m |-> p[2],
       temperature_2m |-> p[3], cloudcover |-> p[4]] :
         p \in { <<0, 0, 15, 50>>, <<0, 6, 20, 10>>, <<50, 25, 5, 100>>,
                 <<0, -5, 10, 20>> } }

\* _fetch_weather_open_meteo: the readings as a weather record, or the
\* default record when the request fails.
fetch_weather_open_meteo(resp) ==
    IF resp.ok
    THEN LET rainfall_mm == resp.precipitation
             windspeed == resp.windspeed_10m
             v == 10000 - (windspeed * 100) - (rainfall_mm * 50)
             visibility_m == IF v < 100 THEN 100 ELSE v
         IN  [rainfall_mm |-> R(rainfall_mm),
              visibility_m |-> R(visibility_m),
              windspeed |-> R(windspeed),
              temperature |-> R(resp.temperature_2m),
              cloudcover |-> resp.cloudcover]
    ELSE [rainfall_mm |-> R(0),
          visibility_m |-> R(10000),
          windspeed |-> R(5),
          temperature |-> R(20),
          cloudcover |-> 30]

\* get_weather_at_point: the fetched record with the four risks added.
get_weather_at_point(resp) ==
    LET weather == fetch_weather_open_meteo(resp)
        vr == RSub(R(1), RDiv(weather.visibility_m, R(10000)))
        visibility_risk == RMax(R(0), RMin(R(1), vr))
        rain_risk == RMin(R(1), RDiv(weather.rainfall_mm, R(RAIN_CRITICAL_MM)))
        wind_risk == RMin(R(1), RDiv(weather.windspeed, R(WIND_CRITICAL_MS)))
        avg_risk == RDiv(RAdd(RAdd(visibility_risk, rain_risk), wind_risk), R(3))
    IN  [rainfall_mm |-> weather.rainfall_mm,
         visibility_m |-> weather.visibility_m,
         windspeed |-> weather.windspeed,
         temperature |-> weather.temperature,
         cloudcover |-> weather.cloudcover,
         weather_risk_score |-> avg_risk,
         visibility_risk |-> visibility_risk,
         rain_risk |-> rain_risk,
         wind_risk |-> wind_risk]

(***************************************************************************)
(* RoadSafetyScorer.calculate (analysis/road_safety_score.py).             *)
(***************************************************************************)
\* weather is sampled at every WeatherStride-th segment
WeatherStride == 10

\* an empty dict
EmptyDict == [k \in {} |-> 0]

\* dict.get(key, default)
Get(d, key, default) == IF key \in DOMAIN d THEN d[key] ELSE default

\* dict.update / item assignment: the entries of new replace those of d
Update(d, new) == new @@ d

\* a mutant of NoSegments: the empty-route guard is missing
NoSegments_Never(segments) == FALSE

\* `not segments`
NoSegments(segments) == segments = <<>>

default_result ==
    [road_safety_score |-> Rat(1, 2),
     weather_analysis |-> EmptyDict,
     road_analysis |-> EmptyDict]

\* a point that is None or missing
NoPoint == <<>>

\* the point at which the providers are asked about a segment
MidPoint(segment) ==
    LET mid == Get(segment, "mid", NoPoint)
        start == Get(segment, "start", NoPoint)
        end == Get(segment, "end", NoPoint)
    IN  IF mid # NoPoint THEN mid
        ELSE IF start # NoPoint /\ end # NoPoint
             THEN <<RDiv(RAdd(start[1], end[1]), R(2)),
                    RDiv(RAdd(start[2], end[2]), R(2))>>
             ELSE <<R(0), R(0)>>

\* the locals of calculate as the loop is entered
CalcLocals ==
    [segment_results |-> <<>>,
     weather_data_list |-> <<>>,
     weighted_sum |-> R(0),
     total_length |-> R(0),
     total_rainfall |-> R(0),
     total_wind |-> R(0),
     total_vis |-> R(0),
     total_temp |-> R(0),
     total_cloud |-> 0,
     total_weather_risk |-> R(0),
     road_type_dist |-> EmptyDict,
     weighted_road_quality |-> R(0),
     w_bound |-> FALSE,
     w_data |-> EmptyDict]

\* the weather provider asked in every iteration
SamplesWeather_Always(i) == TRUE

\* whether iteration i of the loop asks the weather provider
SamplesWeather(i) == i % WeatherStride = 0

\* the weather sample in force in iteration i: a fresh one, tagged with the
\* iteration and the place, or the one the previous iterations left
CurrentWeather(loc, i, mid_point, resp) ==
    IF SamplesWeather(i)
    THEN Update(get_weather_at_point(resp),
                [sample_id |-> i, location |-> mid_point])
    ELSE loc.w_data

\* a mutant of Term: the risk is not scaled to the quality's 0-100 range
Term_Unscaled(base_quality, weather_risk, length) ==
    RMul(RSub(R(base_quality), weather_risk), R(length))

\* the scoring term of one segment
Term(base_quality, weather_risk, length) ==
    RMul(RSub(R(base_quality), RMul(weather_risk, R(100))), R(length))

\* a mutant of AdjQ: min in place of max
AdjQ_Min(base_quality, weather_risk) ==
    RMin(R(0), RSub(R(base_quality), RMul(weather_risk, R(100))))

\* a mutant of AdjQ: the adjusted quality is not floored at 0
AdjQ_Unfloored(base_quality, weather_risk) ==
    RSub(R(base_quality), RMul(weather_risk, R(100)))

\* the road-quality contribution of one segment
AdjQ(base_quality, weather_risk) ==
    RMax(R(0), RSub(R(base_quality), RMul(weather_risk, R(100))))

\* a mutant of EnrichedSegment: the provider's answer replaces the segment
EnrichedSegment_Replaced(segment, r_data, w_data) ==
    Update(r_data,
           [weather |-> [rainfall_mm |-> w_data.rainfall_mm,
                         visibility_m |-> w_data.visibility_m,
                         windspeed |-> w_data.windspeed,
                         temperature |-> w_data.temperature,
                         cloudcover |-> w_data.cloudcover]])

\* the segment as the loop leaves it: the provider's keys and the weather added
EnrichedSegment(segment, r_data, w_data) ==
    Update(Update(segment, r_data),
           [weather |-> [rainfall_mm |-> w_data.rainfall_mm,
                         visibility_m |-> w_data.visibility_m,
                         windspeed |-> w_data.windspeed,
                         temperature |-> w_data.temperature,
                         cloudcover |-> w_data.cloudcover]])

\* one iteration of the loop over the segments: iteration i (from 0) on
\* segment, with the road provider's answer r_data and, when the weather
\* provider is asked, its response resp
CalcStep(loc, i, segment, r_data, resp) ==
    LET length == Get(segment, "length_m", 0)
        mid_point == MidPoint(segment)
        w_data == CurrentWeather(loc, i, mid_point, resp)
        base_quality == r_data.base_quality
        weather_risk == w_data.weather_risk_score
        rt == r_data.road_type
        dist == loc.road_type_dist
    IN  [segment_results |->
             Append(loc.segment_results, EnrichedSegment(segment, r_data, w_data)),
         weather_data_list |-> Append(loc.weather_data_list, w_data),
         weighted_sum |->
             RAdd(loc.weighted_sum, Term(base_quality, weather_risk, length)),
         total_length |-> RAdd(loc.total_length, R(length)),
         total_rainfall |-> RAdd(loc.total_rainfall, w_data.rainfall_mm),
         total_wind |-> RAdd(loc.total_wind, w_data.windspeed),
         total_vis |-> RAdd(loc.total_vis, w_data.visibility_m),
         total_temp |-> RAdd(loc.total_temp, w_data.temperature),
         total_cloud |-> loc.total_cloud + w_data.cloudcover,
         total_weather_risk |-> RAdd(loc.total_weather_risk, weather_risk),
         road_type_dist |->
             Update(dist, rt :> RAdd(Get(dist, rt, R(0)), Rat(length, 1000))),
         weighted_road_quality |->
             RAdd(loc.weighted_road_quality,
                  RMul(AdjQ(base_quality, weather_risk), R(length))),
         w_bound |-> TRUE,
         w_data |-> w_data]

\* a mutant of Clamp01: no clamping
Clamp01_None(x) == x

\* max(0.0, min(1.0, x))
Clamp01(x) == RMax(R(0), RMin(R(1), x))

\* the safety score from the loop's sums
FinalScore(loc) ==
    LET final_score == IF RLt(R(0), loc.total_length)
                       THEN RDiv(loc.weighted_sum, RMul(R(100), loc.total_length))
                       ELSE R(0)
    IN  Clamp01(final_score)

\* the road-quality score from the loop's sums
RoadQualityScore(loc) ==
    LET road_quality_score ==
            IF RLt(R(0), loc.total_length)
            THEN RDiv(RDiv(loc.weighted_road_quality, loc.total_length), R(100))
            ELSE Rat(1, 2)
    IN  Clamp01(road_quality_score)

\* the field f of every record of the sequence s
Column(s, f) == [k \in DOMAIN s |-> s[k][f]]

\* the composite weather analysis over count segments
WeatherAnalysis(loc, count) ==
    LET c == R(count)
        wl == loc.weather_data_list
    IN  [weather_data |-> wl,
         avg_rainfall |-> IF count # 0 THEN RDiv(loc.total_rainfall, c) ELSE R(0),
         avg_windspeed |-> IF count # 0 THEN RDiv(loc.total_wind, c) ELSE R(0),
         avg_visibility |-> IF count # 0 THEN RDiv(loc.total_vis, c) ELSE R(10000),
         avg_temperature |-> IF count # 0 THEN RDiv(loc.total_temp, c) ELSE R(20),
         avg_cloudcover |-> IF count # 0 THEN loc.total_cloud \div count ELSE 30,
         avg_weather_risk |->
             IF count # 0 THEN RDiv(loc.total_weather_risk, c) ELSE R(0),
         visibility_risk |->
             IF count # 0 THEN RDiv(RSum(Column(wl, "visibility_risk")), c) ELSE R(0),
         rain_risk |->
             IF count # 0 THEN RDiv(RSum(Column(wl, "rain_risk")), c) ELSE R(0),
         wind_risk |->
             IF count # 0 THEN RDiv(RSum(Column(wl, "wind_risk")), c) ELSE R(0)]

\* what calculate returns after the loop
CalcFinal(loc, count) ==
    LET weather_analysis == WeatherAnalysis(loc, count)
    IN  [road_safety_score |-> FinalScore(loc),
         weather_analysis |-> weather_analysis,
         road_analysis |->
             [road_segments |-> loc.segment_results,
              road_quality_score |-> RoadQualityScore(loc),
              avg_weather_risk |-> weather_analysis.avg_weather_risk,
              total_rainfall |-> weather_analysis.avg_rainfall,
              road_type_distribution |-> loc.road_type_dist]]

\* the loop of calculate from iteration i on; resps holds the weather
\* provider's responses, one per request, in the order of the requests
RECURSIVE CalcLoop(_, _, _, _, _)
CalcLoop(loc, i, segments, road, resps) ==
    IF i >= Len(segments) THEN loc
    ELSE LET resp == IF SamplesWeather(i) THEN resps[(i \div WeatherStride) + 1]
                     ELSE resps[1]
         IN  CalcLoop(CalcStep(loc, i, segments[i + 1], road[i + 1], resp),
                      i + 1, segments, road, resps)

\* RoadSafetyScorer.calculate as one call
calculate(segments, road, resps) ==
    IF NoSegments(segments) THEN default_result
    ELSE CalcFinal(CalcLoop(CalcLocals, 0, segments, road, resps), Len(segments))


(***************************************************************************)
(* One call of RoadSafetyScorer.calculate, an iteration of its loop at a   *)
(* time.                                                                   *)
(***************************************************************************)
VARIABLES
    sc_pc,            \* "idle", "call", "loop" or "done"
    sc_segments,      \* the segment list of segment_data (its dicts are updated in place)
    sc_road,          \* what the road provider answers for each segment
    sc_i,             \* the loop index
    sc_loc,           \* the locals of calculate
    sc_result,        \* what calculate returned
    sc_road_calls,    \* the iterations at which the road provider was asked
    sc_weather_calls  \* the iterations at which the weather provider was asked, and its responses

scvars == <<sc_pc, sc_segments, sc_road, sc_i, sc_loc, sc_result,
            sc_road_calls, sc_weather_calls>>

\* what a segment can be: its length and the road the provider finds there
SegKinds ==
    { [length_m |-> k[1], base_quality |-> k[2], road_type |-> k[3]] :
        k \in { <<1000, 80, "primary">>, <<1000, 0, "track">>,
                <<500, 100, "motorway">>, <<0, 80, "primary">>,
                <<2000, 40, "tertiary">> } }

\* the k-th segment (from 1) of a route, as the Segmenter leaves it
Segment(k, length) ==
    [start |-> <<R(k - 1), R(0)>>,
     end |-> <<R(k), R(0)>>,
     mid |-> <<Rat(2 * k - 1, 2), R(0)>>,
     length_m |-> length]

\* the road provider's answer for a segment
RoadAnswer(kind) ==
    [road_type |-> kind.road_type, road_width |-> 7, base_quality |-> kind.base_quality]

\* the segment lists of the model: n segments repeating a pattern
SegmentWorlds ==
    { [k \in 1..n |-> pat[(k - 1) % PatLen]] :
        n \in 0..MaxSegs, pat \in [0..(PatLen - 1) -> SegKinds] }

ScorerIdle ==
    /\ sc_pc = "idle"
    /\ sc_segments = <<>>
    /\ sc_road = <<>>
    /\ sc_i = 0
    /\ sc_loc = CalcLocals
    /\ sc_result = default_result
    /\ sc_road_calls = <<>>
    /\ sc_weather_calls = <<>>

ScorerInit ==
    \E w \in SegmentWorlds :
        /\ sc_pc = "call"
        /\ sc_segments = [k \in DOMAIN w |-> Segment(k, w[k].length_m)]
        /\ sc_road = [k \in DOMAIN w |-> RoadAnswer(w[k])]
        /\ sc_i = 0
        /\ sc_loc = CalcLocals
        /\ sc_result = default_result
        /\ sc_road_calls = <<>>
        /\ sc_weather_calls = <<>>

\* calculate is entered: no segments, the default result; else the loop
CalcEnter ==
    /\ sc_pc = "call"
    /\ IF NoSegments(sc_segments)
       THEN /\ sc_result' = default_result
            /\ sc_pc' = "done"
       ELSE /\ sc_pc' = "loop"
            /\ UNCHANGED sc_result
    /\ UNCHANGED <<sc_segments, sc_road, sc_i, sc_loc, sc_road_calls,
                   sc_weather_calls>>

\* the response drawn for the weather request of iteration i, if it makes one
NoResponse == [ok |-> FALSE, precipitation |-> 0, windspeed_10m |-> 0,
               temperature_2m |-> 0, cloudcover |-> 0]
ResponsesAt(i) == IF SamplesWeather(i) THEN WeatherResponses ELSE {NoResponse}

\* one iteration of the loop
CalcSegment ==
    /\ sc_pc = "loop"
    /\ sc_i < Len(sc_segments)
    /\ \E resp \in ResponsesAt(sc_i) :
        LET segment == sc_segments[sc_i + 1]
            r_data == sc_road[sc_i + 1]
            loc == CalcStep(sc_loc, sc_i, segment, r_data, resp)
        IN  /\ sc_loc' = loc
            /\ sc_segments' =
                   [sc_segments EXCEPT ![sc_i + 1] = loc.segment_results[sc_i + 1]]
            /\ sc_road_calls' = Append(sc_road_calls, sc_i)
            /\ sc_weather_calls' =
                   IF SamplesWeather(sc_i)
                   THEN Append(sc_weather_calls, [i |-> sc_i, resp |-> resp])
                   ELSE sc_weather_calls
    /\ sc_i' = sc_i + 1
    /\ UNCHANGED <<sc_pc, sc_road, sc_result>>

\* the loop is over: the final calculation and the return
CalcReturn ==
    /\ sc_pc = "loop"
    /\ sc_i = Len(sc_segments)
    /\ sc_result' = CalcFinal(sc_loc, Len(sc_segments))
    /\ sc_pc' = "done"
    /\ UNCHANGED <<sc_segments, sc_road, sc_i, sc_loc, sc_road_calls,
                   sc_weather_calls>>

(***************************************************************************)
(* Text and JSON.  A text is a sequence of one-character strings; a JSON   *)
(* value is a record [t, v]: t names its type and v holds a Python str as  *)
(* a text, a number as an integer, a list as a sequence, a dict as a       *)
(* function from texts to values.  An int and a finite float are told      *)
(* apart (t = "num", t = "float").                                         *)
(***************************************************************************)
JNull == [t |-> "null", v |-> 0]
JBool(b) == [t |-> "bool", v |-> b]
JNum(k) == [t |-> "num", v |-> k]
\* a finite float, its value held as a rational
JFloat(r) == [t |-> "float", v |-> r]
\* float('nan'), float('inf'), float('-inf')
JNaN == [t |-> "nan", v |-> 0]
JInf(sign) == [t |-> "inf", v |-> sign]
JStr(chars) == [t |-> "str", v |-> chars]
JArr(items) == [t |-> "arr", v |-> items]
JObj(dict) == [t |-> "obj", v |-> dict]

\* the grave accent (the character of a code fence) and the apostrophe, which
\* a string of this module cannot hold, are held by name
Backtick == "GRAVE"
Apostrophe == "APOSTROPHE"

Whitespace == {" ", "\n", "\t", "\r"}
Digits == <<"0", "1", "2", "3", "4", "5", "6", "7", "8", "9">>
IsDigit(c) == \E k \in 1..10 : Digits[k] = c
DigitValue(c) == (CHOOSE k \in 1..10 : Digits[k] = c) - 1

\* str(k) for k >= 0
RECURSIVE DecStr(_)
DecStr(k) == IF k < 10 THEN <<Digits[k + 1]>>
             ELSE DecStr(k \div 10) \o <<Digits[(k % 10) + 1]>>

\* text[a:b] for 0 <= a, b (Python slice of positions a .. b-1, from 0)
Slice(text, a, b) == SubSeq(text, a + 1, IF b > Len(text) THEN Len(text) ELSE b)

\* text.startswith(prefix)
StartsWith(text, prefix) ==
    /\ Len(prefix) <= Len(text)
    /\ SubSeq(text, 1, Len(prefix)) = prefix

\* text.endswith(suffix)
EndsWith(text, suffix) ==
    /\ Len(suffix) <= Len(text)
    /\ SubSeq(text, Len(text) - Len(suffix) + 1, Len(text)) = suffix

\* text.strip()
RECURSIVE LStrip(_)
LStrip(text) ==
    IF text # <<>> /\ Head(text) \in Whitespace THEN LStrip(Tail(text)) ELSE text
RECURSIVE RStrip(_)
RStrip(text) ==
    IF text # <<>> /\ text[Len(text)] \in Whitespace
    THEN RStrip(SubSeq(text, 1, Len(text) - 1))
    ELSE text
Strip(text) == RStrip(LStrip(text))

\* text.find(c): the first position (from 0) of the character, or -1
Find(text, c) ==
    IF \E k \in 1..Len(text) : text[k] = c
    THEN (CHOOSE k \in 1..Len(text) :
              text[k] = c /\ \A j \in 1..(k - 1) : text[j] # c) - 1
    ELSE -1

(***************************************************************************)
(* json.loads: a strict parser of the JSON grammar (objects, arrays,       *)
(* strings with the simple escapes, numbers, true, false, null and the     *)
(* NaN and Infinity literals Python accepts).  A parse is [ok, pos, val]:  *)
(* pos is the position (from 1) after what was read.                       *)
(***************************************************************************)
ParseFail == [ok |-> FALSE, pos |-> 0, val |-> JNull]
Parsed(pos, val) == [ok |-> TRUE, pos |-> pos, val |-> val]

\* the first position at or after p that holds no whitespace
RECURSIVE SkipWs(_, _)
SkipWs(text, p) ==
    IF p <= Len(text) /\ text[p] \in Whitespace THEN SkipWs(text, p + 1) ELSE p

\* whether word stands at position p
WordAt(text, p, word) ==
    /\ p + Len(word) - 1 <= Len(text)
    /\ SubSeq(text, p, p + Len(word) - 1) = word

\* the character an escape sequence \c stands for, <<>> if there is none
Unescape(c) ==
    CASE c = "\"" -> <<"\"">>
      [] c = "\\" -> <<"\\">>
      [] c = "/" -> <<"/">>
      [] c = "n" -> <<"\n">>
      [] c = "t" -> <<"\t">>
      [] c = "r" -> <<"\r">>
      [] OTHER -> <<>>

\* the rest of a string whose opening quote has been read
RECURSIVE ScanString(_, _, _)
ScanString(text, p, acc) ==
    IF p > Len(text) THEN ParseFail
    ELSE IF text[p] = "\"" THEN Parsed(p + 1, JStr(acc))
    ELSE IF text[p] \in {"\n", "\t", "\r"} THEN ParseFail
    ELSE IF text[p] = "\\"
         THEN IF p + 1 > Len(text) \/ Unescape(text[p + 1]) = <<>>
              THEN ParseFail
              ELSE ScanString(text, p + 2, acc \o Unescape(text[p + 1]))
    ELSE ScanString(text, p + 1, Append(acc, text[p]))

ParseString(text, p) ==
    IF p <= Len(text) /\ text[p] = "\"" THEN ScanString(text, p + 1, <<>>) ELSE ParseFail

\* the digits from position p on: [pos, val]
RECURSIVE ScanDigits(_, _, _)
ScanDigits(text, p, acc) ==
    IF p <= Len(text) /\ IsDigit(text[p])
    THEN ScanDigits(text, p + 1, 10 * acc + DigitValue(text[p]))
    ELSE [pos |-> p, val |-> acc]

\* 10^e for e >= 0
RECURSIVE Pow10(_)
Pow10(e) == IF e = 0 THEN 1 ELSE 10 * Pow10(e - 1)

\* the largest decimal exponent of a finite double
MaxExp10 == 308

\* the parts of a decimal literal, given its runs of digits: ip the
\* integer part, fp the fraction (dot tells whether there is one), ex the
\* exponent (exp tells whether there is one, neg_e its sign, ed where its
\* digits start)
NumberParts(p, ip, dot, fp, exp, neg_e, ed, ex) ==
    [int_digits |-> ip.pos - p,
     int_val |-> ip.val,
     dot |-> dot,
     frac_digits |-> IF dot THEN fp.pos - (ip.pos + 1) ELSE 0,
     exp |-> exp,
     exp_digits |-> IF exp THEN ex.pos - ed ELSE 0,
     mantissa |-> IF dot
                  THEN Rat(ip.val * Pow10(fp.pos - (ip.pos + 1)) + fp.val,
                           Pow10(fp.pos - (ip.pos + 1)))
                  ELSE R(ip.val),
     e |-> IF neg_e THEN -ex.val ELSE ex.val,
     pos |-> ex.pos]

\* ... ([eE] [+-]? digits*)?
ScanExponent(text, p, ip, dot, fp) ==
    IF fp.pos <= Len(text) /\ text[fp.pos] \in {"e", "E"}
    THEN IF fp.pos + 1 <= Len(text) /\ text[fp.pos + 1] \in {"+", "-"}
         THEN NumberParts(p, ip, dot, fp, TRUE, text[fp.pos + 1] = "-", fp.pos + 2,
                          ScanDigits(text, fp.pos + 2, 0))
         ELSE NumberParts(p, ip, dot, fp, TRUE, FALSE, fp.pos + 1,
                          ScanDigits(text, fp.pos + 1, 0))
    ELSE NumberParts(p, ip, dot, fp, FALSE, FALSE, fp.pos, [pos |-> fp.pos, val |-> 0])

\* ... ("." digits*)? ...
ScanFraction(text, p, ip) ==
    IF ip.pos <= Len(text) /\ text[ip.pos] = "."
    THEN ScanExponent(text, p, ip, TRUE, ScanDigits(text, ip.pos + 1, 0))
    ELSE ScanExponent(text, p, ip, FALSE, [pos |-> ip.pos, val |-> 0])

\* the parts of a decimal literal from position p (after its sign):
\* digits* ("." digits*)? ([eE] [+-]? digits*)?
ScanNumber(text, p) == ScanFraction(text, p, ScanDigits(text, p, 0))

\* the float a decimal literal stands for; beyond the range of a double it
\* is an infinity
FloatOf(neg, s) ==
    IF s.mantissa.n # 0 /\ s.e > MaxExp10 THEN JInf(IF neg THEN -1 ELSE 1)
    ELSE LET m == IF s.e >= 0 THEN RMul(s.mantissa, R(Pow10(s.e)))
                  ELSE RDiv(s.mantissa, R(Pow10(-s.e)))
         IN  JFloat(IF neg THEN RNeg(m) ELSE m)

\* the JSON number whose literal (after its sign, at position q) has the
\* parts s: an int when it has neither fraction nor exponent, else a float
NumberAt(text, q, neg, s) ==
    IF s.int_digits = 0 THEN ParseFail
    ELSE IF text[q] = "0" /\ s.int_digits > 1 THEN ParseFail
    ELSE IF s.dot /\ s.frac_digits = 0 THEN ParseFail
    ELSE IF s.exp /\ s.exp_digits = 0 THEN ParseFail
    ELSE IF ~s.dot /\ ~s.exp
         THEN Parsed(s.pos, JNum(IF neg THEN -s.int_val ELSE s.int_val))
    ELSE Parsed(s.pos, FloatOf(neg, s))

\* a JSON number: -? (0 | [1-9][0-9]*) (. [0-9]+)? ([eE] [+-]? [0-9]+)?
ParseNumber(text, p) ==
    IF p <= Len(text) /\ text[p] = "-"
    THEN NumberAt(text, p + 1, TRUE, ScanNumber(text, p + 1))
    ELSE NumberAt(text, p, FALSE, ScanNumber(text, p))

RECURSIVE ParseValue(_, _), ParseMembers(_, _, _), ParseElements(_, _, _)

\* a value at position p (whitespace before it already skipped)
ParseValue(text, p) ==
    IF p > Len(text) THEN ParseFail
    ELSE IF text[p] = "\"" THEN ParseString(text, p)
    ELSE IF text[p] = "{"
         THEN LET q == SkipWs(text, p + 1)
              IN  IF q <= Len(text) /\ text[q] = "}"
                  THEN Parsed(q + 1, JObj(EmptyDict))
                  ELSE ParseMembers(text, q, EmptyDict)
    ELSE IF text[p] = "["
         THEN LET q == SkipWs(text, p + 1)
              IN  IF q <= Len(text) /\ text[q] = "]"
                  THEN Parsed(q + 1, JArr(<<>>))
                  ELSE ParseElements(text, q, <<>>)
    ELSE IF WordAt(text, p, <<"n", "u", "l", "l">>) THEN Parsed(p + 4, JNull)
    ELSE IF WordAt(text, p, <<"t", "r", "u", "e">>) THEN Parsed(p + 4, JBool(TRUE))
    ELSE IF WordAt(text, p, <<"f", "a", "l", "s", "e">>) THEN Parsed(p + 5, JBool(FALSE))
    ELSE IF WordAt(text, p, <<"N", "a", "N">>) THEN Parsed(p + 3, JNaN)
    ELSE IF WordAt(text, p, <<"I", "n", "f", "i", "n", "i", "t", "y">>)
         THEN Parsed(p + 8, JInf(1))
    ELSE IF WordAt(text, p, <<"-", "I", "n", "f", "i", "n", "i", "t", "y">>)
         THEN Parsed(p + 9, JInf(-1))
    ELSE ParseNumber(text, p)

\* the members of an object from position p (a key must stand there); acc
\* holds the members read (a repeated key keeps its last value)
ParseMembers(text, p, acc) ==
    LET key == ParseString(text, p)
        colon == SkipWs(text, key.pos)
        val == ParseValue(text, SkipWs(text, colon + 1))
        next == SkipWs(text, val.pos)
        dict == Update(acc, key.val.v :> val.val)
    IN  IF ~key.ok THEN ParseFail
        ELSE IF colon > Len(text) \/ text[colon] # ":" THEN ParseFail
        ELSE IF ~val.ok THEN ParseFail
        ELSE IF next > Len(text) THEN ParseFail
        ELSE IF text[next] = "}" THEN Parsed(next + 1, JObj(dict))
        ELSE IF text[next] = "," THEN ParseMembers(text, SkipWs(text, next + 1), dict)
        ELSE ParseFail

\* the elements of an array from position p (a value must stand there)
ParseElements(text, p, acc) ==
    LET val == ParseValue(text, p)
        next == SkipWs(text, val.pos)
        items == Append(acc, val.val)
    IN  IF ~val.ok THEN ParseFail
        ELSE IF next > Len(text) THEN ParseFail
        ELSE IF text[next] = "]" THEN Parsed(next + 1, JArr(items))
        ELSE IF text[next] = "," THEN ParseElements(text, SkipWs(text, next + 1), items)
        ELSE ParseFail

\* json.loads(text): [ok, val]; ok is FALSE where it raises JSONDecodeError
\* (no value, or extra data after it)
json_loads(text) ==
    LET r == ParseValue(text, SkipWs(text, 1))
    IN  IF r.ok /\ SkipWs(text, r.pos) > Len(text)
        THEN [ok |-> TRUE, val |-> r.val]
        ELSE [ok |-> FALSE, val |-> JNull]

(***************************************************************************)
(* Python values of the pipeline.                                          *)
(***************************************************************************)
\* None
PyNone == [py_none |-> TRUE]

\* x is None (None itself, or the null of a JSON text)
IsNone(x) == IF "py_none" \in DOMAIN x THEN TRUE ELSE x.t = "null"

\* whether two values (None or JSON) are the same, type by type
RECURSIVE SameValue(_, _)
SameValue(a, b) ==
    IF "py_none" \in DOMAIN a \/ "py_none" \in DOMAIN b
    THEN "py_none" \in DOMAIN a /\ "py_none" \in DOMAIN b
    ELSE IF a.t # b.t THEN FALSE
    ELSE IF a.t = "arr"
         THEN /\ Len(a.v) = Len(b.v)
              /\ \A k \in 1..Len(a.v) : SameValue(a.v[k], b.v[k])
    ELSE IF a.t = "obj"
         THEN /\ DOMAIN a.v = DOMAIN b.v
              /\ \A k \in DOMAIN a.v : SameValue(a.v[k], b.v[k])
    ELSE a.v = b.v

\* the truth value Python gives a JSON value
Truthy(j) ==
    CASE j.t = "null" -> FALSE
      [] j.t = "bool" -> j.v
      [] j.t = "num" -> j.v # 0
      [] j.t = "float" -> j.v.n # 0
      [] j.t = "str" -> j.v # <<>>
      [] j.t = "arr" -> j.v # <<>>
      [] j.t = "obj" -> DOMAIN j.v # {}
      [] OTHER -> TRUE

\* f"Route {k}"
RouteName(k) == <<"R", "o", "u", "t", "e", " ">> \o DecStr(k)

\* the last index of results that carries the name
LastNamed(results, name) ==
    CHOOSE k \in DOMAIN results :
        /\ results[k].route_name = name
        /\ \A j \in DOMAIN results : results[j].route_name = name => j <= k

NamesOf(results) == {results[k].route_name : k \in DOMAIN results}

\* {r["route_name"]: r[field] for r in results}: a later result replaces an
\* earlier one of the same name
DictBy(results, field) ==
    [name \in NamesOf(results) |-> results[LastNamed(results, name)][field]]

\* {r["route_name"]: r for r in results}
LookupBy(results) ==
    [name \in NamesOf(results) |-> results[LastNamed(results, name)]]

(***************************************************************************)
(* The collaborators of analyze_routes whose code is not in the            *)
(* repository's sources, after sections 4.2, 4.4 and 4.5 of the design.    *)
(***************************************************************************)
Max(S) == CHOOSE x \in S : \A y \in S : y <= x
Min(S) == CHOOSE x \in S : \A y \in S : x <= y

\* min-max normalisation of a cost within its batch: 1 for the least cost,
\* 0 for the greatest, 1 for all when the range is empty
MinMaxScore(x, batch) ==
    IF Max(batch) = Min(batch) THEN R(1)
    ELSE Rat(Max(batch) - x, Max(batch) - Min(batch))

TimeAnalyze(routes) ==
    [k \in DOMAIN routes |->
        [route_name |-> routes[k].route_name,
         duration_s |-> routes[k].duration_s,
         time_score |-> MinMaxScore(routes[k].duration_s,
                                    {routes[j].duration_s : j \in DOMAIN routes})]]

DistanceAnalyze(routes) ==
    [k \in DOMAIN routes |->
        [route_name |-> routes[k].route_name,
         distance_score |-> MinMaxScore(routes[k].distance_m,
                                        {routes[j].distance_m : j \in DOMAIN routes})]]

CarbonAnalyze(routes) ==
    [k \in DOMAIN routes |->
        [route_name |-> routes[k].route_name,
         carbon_score |-> MinMaxScore(routes[k].distance_m,
                                      {routes[j].distance_m : j \in DOMAIN routes})]]

\* the default priorities of analyze_routes
DefaultPriorities ==
    [time |-> Rat(1, 4), distance |-> Rat(1, 4),
     carbon_emission |-> Rat(1, 4), road_quality |-> Rat(1, 4)]

\* ResilienceCalculator.calculate: one result per route name, in their order
ResilienceCalculate(route_names, time_scores, distance_scores, carbon_scores, road_quality_scores, priorities) ==
    [k \in DOMAIN route_names |->
        LET name == route_names[k]
            comp == [time |-> Get(time_scores, name, R(0)),
                     distance |-> Get(distance_scores, name, R(0)),
                     carbon_emission |-> Get(carbon_scores, name, R(0)),
                     road_quality |-> Get(road_quality_scores, name, R(0))]
            contrib == [d \in DOMAIN comp |-> RMul(priorities[d], comp[d])]
        IN  [route_name |-> name,
             overall_resilience_score |->
                 RAdd(RAdd(contrib.time, contrib.distance),
                      RAdd(contrib.carbon_emission, contrib.road_quality)),
             component_scores |-> comp,
             weighted_contributions |-> contrib]]

\* ResilienceCalculator.format_results: the route of maximal overall score,
\* the first of them on a tie
FormatResults(results) ==
    LET best == CHOOSE k \in DOMAIN results :
                    /\ \A j \in DOMAIN results :
                           RLe(results[j].overall_resilience_score,
                               results[k].overall_resilience_score)
                    /\ \A j \in 1..(k - 1) :
                           RLt(results[j].overall_resilience_score,
                               results[k].overall_resilience_score)
    IN  [routes |-> results,
         best_route_name |-> results[best].route_name,
         reason_for_selection |-> <<"b", "e", "s", "t">>]

(***************************************************************************)
(* generate_summary (analysis/gemini_summary.py).                          *)
(***************************************************************************)
Fence == <<Backtick, Backtick, Backtick>>
FenceJson == Fence \o <<"j", "s", "o", "n">>

\* the clean-up of code blocks: a leading fence with the json tag and a
\* trailing fence are cut off
StripFences(text) ==
    LET t1 == IF StartsWith(text, FenceJson) THEN Slice(text, 7, Len(text)) ELSE text
    IN  IF EndsWith(t1, Fence) THEN Slice(t1, 0, Len(t1) - 3) ELSE t1

\* generate_summary, given what the summarizer does: key tells whether an
\* API key is configured, raises whether the request raises, text is the
\* response text.  Any exception yields the empty dict.
generate_summary(outcome) ==
    IF ~outcome.key THEN JObj(EmptyDict)
    ELSE IF outcome.raises THEN JObj(EmptyDict)
    ELSE LET parsed == json_loads(Strip(StripFences(outcome.text)))
         IN  IF parsed.ok THEN parsed.val ELSE JObj(EmptyDict)

(***************************************************************************)
(* RouteAnalysisSystem._combine_results (main.py).                         *)
(***************************************************************************)
K_route_name == <<"r", "o", "u", "t", "e", "_", "n", "a", "m", "e">>
K_short_summary == <<"s", "h", "o", "r", "t", "_", "s", "u", "m", "m", "a", "r", "y">>
K_reasoning == <<"r", "e", "a", "s", "o", "n", "i", "n", "g">>
K_intermediate_cities == <<"i", "n", "t", "e", "r", "m", "e", "d", "i", "a", "t", "e", "_", "c", "i", "t", "i", "e", "s">>
K_name == <<"n", "a", "m", "e">>
K_lat == <<"l", "a", "t">>
K_lon == <<"l", "o", "n">>
AnalysisPending == <<"A", "n", "a", "l", "y", "s", "i", "s", " ", "p", "e", "n", "d", "i", "n", "g", ".", ".", ".">>
NotAvailable == <<"D", "e", "t", "a", "i", "l", "e", "d", " ", "a", "n", "a", "l", "y", "s", "i", "s", " ", "n", "o", "t", " ", "a", "v", "a", "i", "l", "a", "b", "l", "e", ".">>

Raised(error) == [raised |-> TRUE, error |-> error, value |-> PyNone]
Returned(value) == [raised |-> FALSE, error |-> "", value |-> value]

\* gemini_data of a route: the entry of gemini_results under its name
GeminiData(gemini_results, route_name) ==
    IF Truthy(gemini_results)
    THEN IF gemini_results.t = "obj"
         THEN Returned(Get(gemini_results.v, route_name, JObj(EmptyDict)))
         ELSE Raised("AttributeError")
    ELSE Returned(JObj(EmptyDict))

\* whether an entry of intermediate_cities is kept
IsCity(city) ==
    /\ city.t = "obj"
    /\ K_lat \in DOMAIN city.v
    /\ K_lon \in DOMAIN city.v

City(city) ==
    [name |-> Get(city.v, K_name, JNull), lat |-> city.v[K_lat], lon |-> city.v[K_lon]]

RECURSIVE KeptCities(_)
KeptCities(items) ==
    IF items = <<>> THEN <<>>
    ELSE IF IsCity(Head(items)) THEN <<City(Head(items))>> \o KeptCities(Tail(items))
    ELSE KeptCities(Tail(items))

\* the intermediate cities of a route, all of the valid ones
IntermediateCities_Uncapped(gemini_data) ==
    IF gemini_data.t # "obj" THEN Raised("AttributeError")
    ELSE IF Get(gemini_data.v, K_intermediate_cities, JArr(<<>>)).t = "arr"
         THEN Returned(KeptCities(Get(gemini_data.v, K_intermediate_cities, JArr(<<>>)).v))
         ELSE Returned(<<>>)

\* the intermediate cities of a route, at most two
IntermediateCities(gemini_data) ==
    IF gemini_data.t # "obj" THEN Raised("AttributeError")
    ELSE LET raw == Get(gemini_data.v, K_intermediate_cities, JArr(<<>>))
         IN  IF raw.t = "arr" THEN Returned(Slice(KeptCities(raw.v), 0, 2))
             ELSE IF raw.t \in {"obj", "str"} THEN Returned(<<>>)
             ELSE Raised("TypeError")

K_summary_road_safety_score == <<"r", "o", "a", "d", "_", "s", "a", "f", "e", "t", "y", "_", "s", "c", "o", "r", "e">>

\* the enriched record of one route, with the road safety score the
\* summarizer gave, when it gave a number
EnrichedRoute_FromSummary(route, time_lookup, distance_lookup, carbon_lookup, road_lookup, resilience_lookup, safety_scores, gemini_data, intermediate_cities) ==
    LET route_name == Get(route, "route_name", <<"U", "n", "k", "n", "o", "w", "n">>)
        time_data == Get(time_lookup, route_name, EmptyDict)
        distance_data == Get(distance_lookup, route_name, EmptyDict)
        carbon_data == Get(carbon_lookup, route_name, EmptyDict)
        road_data == Get(road_lookup, route_name, EmptyDict)
        resilience_data == Get(resilience_lookup, route_name, EmptyDict)
        safety_score ==
            IF Get(gemini_data.v, K_summary_road_safety_score, JNull).t = "num"
            THEN Rat(gemini_data.v[K_summary_road_safety_score].v, 100)
            ELSE Get(safety_scores, route_name, Rat(1, 2))
    IN  [route_name |-> Get(gemini_data.v, K_route_name, JStr(route_name)),
         distance_m |-> Get(route, "distance_m", 0),
         duration_s |-> Get(route, "duration_s", 0),
         predicted_duration_min |-> Rat(Get(time_data, "duration_s", 0), 60),
         time_score |-> Get(time_data, "time_score", R(0)),
         distance_score |-> Get(distance_data, "distance_score", R(0)),
         carbon_score |-> Get(carbon_data, "carbon_score", R(0)),
         road_segments |-> Get(road_data, "road_segments", <<>>),
         road_quality_score |-> Get(road_data, "road_quality_score", R(0)),
         avg_weather_risk |-> Get(road_data, "avg_weather_risk", R(0)),
         total_rainfall |-> Get(road_data, "total_rainfall", R(0)),
         road_type_distribution |-> Get(road_data, "road_type_distribution", EmptyDict),
         road_safety_score |-> safety_score,
         overall_resilience_score |->
             Get(resilience_data, "overall_resilience_score", R(0)),
         component_scores |-> Get(resilience_data, "component_scores", EmptyDict),
         weighted_contributions |->
             Get(resilience_data, "weighted_contributions", EmptyDict),
         gemini_analysis |->
             [route_name |-> Get(gemini_data.v, K_route_name, JStr(route_name)),
              short_summary |-> Get(gemini_data.v, K_short_summary, JStr(AnalysisPending)),
              reasoning |-> Get(gemini_data.v, K_reasoning, JStr(NotAvailable)),
              intermediate_cities |-> intermediate_cities,
              weather_risk_score |->
                  RMul(Get(road_data, "avg_weather_risk", R(0)), R(100)),
              road_safety_score |-> RMul(safety_score, R(100)),
              carbon_score |-> RMul(Get(carbon_data, "carbon_score", R(0)), R(100)),
              overall_resilience_score |->
                  Get(resilience_data, "overall_resilience_score", R(0))]]

\* the enriched record of one route
EnrichedRoute(route, time_lookup, distance_lookup, carbon_lookup, road_lookup, resilience_lookup, safety_scores, gemini_data, intermediate_cities) ==
    LET route_name == Get(route, "route_name", <<"U", "n", "k", "n", "o", "w", "n">>)
        time_data == Get(time_lookup, route_name, EmptyDict)
        distance_data == Get(distance_lookup, route_name, EmptyDict)
        carbon_data == Get(carbon_lookup, route_name, EmptyDict)
        road_data == Get(road_lookup, route_name, EmptyDict)
        resilience_data == Get(resilience_lookup, route_name, EmptyDict)
        safety_score == Get(safety_scores, route_name, Rat(1, 2))
    IN  [route_name |-> Get(gemini_data.v, K_route_name, JStr(route_name)),
         distance_m |-> Get(route, "distance_m", 0),
         duration_s |-> Get(route, "duration_s", 0),
         predicted_duration_min |-> Rat(Get(time_data, "duration_s", 0), 60),
         time_score |-> Get(time_data, "time_score", R(0)),
         distance_score |-> Get(distance_data, "distance_score", R(0)),
         carbon_score |-> Get(carbon_data, "carbon_score", R(0)),
         road_segments |-> Get(road_data, "road_segments", <<>>),
         road_quality_score |-> Get(road_data, "road_quality_score", R(0)),
         avg_weather_risk |-> Get(road_data, "avg_weather_risk", R(0)),
         total_rainfall |-> Get(road_data, "total_rainfall", R(0)),
         road_type_distribution |-> Get(road_data, "road_type_distribution", EmptyDict),
         road_safety_score |-> safety_score,
         overall_resilience_score |->
             Get(resilience_data, "overall_resilience_score", R(0)),
         component_scores |-> Get(resilience_data, "component_scores", EmptyDict),
         weighted_contributions |->
             Get(resilience_data, "weighted_contributions", EmptyDict),
         gemini_analysis |->
             [route_name |-> Get(gemini_data.v, K_route_name, JStr(route_name)),
              short_summary |-> Get(gemini_data.v, K_short_summary, JStr(AnalysisPending)),
              reasoning |-> Get(gemini_data.v, K_reasoning, JStr(NotAvailable)),
              intermediate_cities |-> intermediate_cities,
              weather_risk_score |->
                  RMul(Get(road_data, "avg_weather_risk", R(0)), R(100)),
              road_safety_score |-> RMul(safety_score, R(100)),
              carbon_score |-> RMul(Get(carbon_data, "carbon_score", R(0)), R(100)),
              overall_resilience_score |->
                  Get(resilience_data, "overall_resilience_score", R(0))]]

\* the loop of _combine_results from route k on: the enriched routes, or the
\* exception an iteration raises
RECURSIVE CombineFrom(_, _, _, _, _, _, _, _, _, _)
CombineFrom(k, enriched, routes, time_lookup, distance_lookup, carbon_lookup, road_lookup, resilience_lookup, safety_scores, gemini_results) ==
    IF k > Len(routes) THEN Returned(enriched)
    ELSE LET route == routes[k]
             route_name == Get(route, "route_name", <<"U", "n", "k", "n", "o", "w", "n">>)
             gemini_data == GeminiData(gemini_results, route_name)
             cities == IntermediateCities(gemini_data.value)
         IN  IF gemini_data.raised THEN gemini_data
             ELSE IF cities.raised THEN cities
             ELSE CombineFrom(k + 1,
                      Append(enriched,
                             EnrichedRoute(route, time_lookup, distance_lookup,
                                           carbon_lookup, road_lookup,
                                           resilience_lookup, safety_scores,
                                           gemini_data.value, cities.value)),
                      routes, time_lookup, distance_lookup, carbon_lookup,
                      road_lookup, resilience_lookup, safety_scores, gemini_results)

combine_results(routes, time_results, distance_results, carbon_results, road_results, resilience_results, safety_scores, gemini_results) ==
    CombineFrom(1, <<>>, routes, LookupBy(time_results), LookupBy(distance_results),
                LookupBy(carbon_results), LookupBy(road_results),
                LookupBy(resilience_results), safety_scores, gemini_results)

(***************************************************************************)
(* RouteAnalysisSystem.analyze_routes and _get_routes (main.py), one       *)
(* request at a time.                                                      *)
(***************************************************************************)
VARIABLES
    pc,                 \* where analyze_routes stands
    max_alternatives,   \* the argument of the request
    primary_resp,       \* what the primary provider answered
    fallback_resp,      \* what the fallback provider answered
    primary_calls,      \* the get_directions calls made to the primary provider
    fallback_calls,     \* the get_directions calls made to the fallback provider
    routes,             \* the local routes
    time_results, distance_results, carbon_results,
    segments_data,      \* one entry per route: its name, segments and roads
    idx,                \* the index of the safety loop
    weather_results, road_results, safety_scores,
    resilience_results,
    temp_routes_data,   \* the context built for the summarizer
    summ_outcome,       \* what the summarizer did
    gemini_results,
    result,             \* what analyze_routes returned
    invoked,            \* the components invoked for the request
    faulty              \* the routes (by position) that yielded no segments

plvars == <<pc, max_alternatives, primary_resp, fallback_resp, primary_calls,
            fallback_calls, routes, time_results, distance_results,
            carbon_results, segments_data, idx, weather_results, road_results,
            safety_scores, resilience_results, temp_routes_data, summ_outcome, gemini_results,
            result, invoked, faulty>>

\* the routes a provider can hold: one without a name, one with a name
ProviderRoutes ==
    { [distance_m |-> 10000, duration_s |-> 600],
      [distance_m |-> 9000, duration_s |-> 700, route_name |-> <<>>],
      [distance_m |-> 8000, duration_s |-> 900, route_name |-> RouteName(2)] }

\* the sequences over S of length at most n
SeqsUpTo(S, n) == UNION { [1..k -> S] : k \in 0..n }

\* what get_directions can return: None, or a list of routes
NoneResponse == [none |-> TRUE, routes |-> <<>>]
ProviderResponses ==
    {NoneResponse}
    \cup { [none |-> FALSE, routes |-> rs] : rs \in SeqsUpTo(ProviderRoutes, MaxRoutes) }

\* `if routes:` on what a provider returned
HasRoutes(resp) == ~resp.none /\ resp.routes # <<>>

\* a mutant of FirstRoutes: the list is not truncated
FirstRoutes_All(rs, n) == rs

\* routes[:max_alternatives]
FirstRoutes(rs, n) == Slice(rs, 0, n)

\* the segment lists the Segmenter can give a route of the pipeline
PipelineWorlds ==
    { <<>>,
      << [length_m |-> 1000, base_quality |-> 80, road_type |-> "primary"],
         [length_m |-> 1000, base_quality |-> 80, road_type |-> "primary"] >>,
      << [length_m |-> 1000, base_quality |-> 0, road_type |-> "track"] >> }

\* the weather responses of the pipeline: a failed request or a light wind
PipelineWeather ==
    { r \in WeatherResponses : ~r.ok \/ r.windspeed_10m = 6 }

\* the response texts of the summarizer
Payload1 == <<"{", "\"", "R", "o", "u", "t", "e", " ", "1", "\"", ":", "{", "\"", "s", "h", "o", "r", "t", "_", "s", "u", "m", "m", "a", "r", "y", "\"", ":", "\"", "s", "\"", ",", "\"", "r", "e", "a", "s", "o", "n", "i", "n", "g", "\"", ":", "\"", "r", "\"", ",", "\"", "i", "n", "t", "e", "r", "m", "e", "d", "i", "a", "t", "e", "_", "c", "i", "t", "i", "e", "s", "\"", ":", "[", "{", "\"", "n", "a", "m", "e", "\"", ":", "\"", "P", "\"", ",", "\"", "l", "a", "t", "\"", ":", "1", ",", "\"", "l", "o", "n", "\"", ":", "2", "}", "]", "}", "}">>
Payload12 == <<"{", "\"", "R", "o", "u", "t", "e", " ", "1", "\"", ":", "{", "\"", "s", "h", "o", "r", "t", "_", "s", "u", "m", "m", "a", "r", "y", "\"", ":", "\"", "s", "\"", "}", ",", "\"", "R", "o", "u", "t", "e", " ", "2", "\"", ":", "{", "\"", "r", "e", "a", "s", "o", "n", "i", "n", "g", "\"", ":", "\"", "r", "\"", "}", "}">>
PayloadList == <<"[", "1", "]">>
PayloadText == <<"{", "\"", "R", "o", "u", "t", "e", " ", "1", "\"", ":", "\"", "f", "a", "s", "t", "\"", "}">>
PayloadNullCities == <<"{", "\"", "R", "o", "u", "t", "e", " ", "1", "\"", ":", "{", "\"", "i", "n", "t", "e", "r", "m", "e", "d", "i", "a", "t", "e", "_", "c", "i", "t", "i", "e", "s", "\"", ":", "n", "u", "l", "l", "}", "}">>
Apology == <<"S", "o", "r", "r", "y", ",", " ", "n", "o", " ", "J", "S", "O", "N", ".">>


\* lists of intermediate_cities a generator can return: valid entries mixed
\* with invalid ones, more than two valid entries, none at all
CityLists ==
    {<<"[", "1", ",", "{", "\"", "n", "a", "m", "e", "\"", ":", "\"", "P", "\"", ",", "\"", "l", "a", "t", "\"", ":", "1", ",", "\"", "l", "o", "n", "\"", ":", "2", "}", ",", "\"", "x", "\"", ",", "{", "\"", "l", "a", "t", "\"", ":", "3", "}", ",", "{", "\"", "n", "a", "m", "e", "\"", ":", "\"", "Q", "\"", ",", "\"", "l", "a", "t", "\"", ":", "3", ",", "\"", "l", "o", "n", "\"", ":", "4", "}", ",", "{", "\"", "n", "a", "m", "e", "\"", ":", "\"", "R", "\"", ",", "\"", "l", "a", "t", "\"", ":", "5", ",", "\"", "l", "o", "n", "\"", ":", "6", "}", "]">>,
     <<"[", "{", "\"", "n", "a", "m", "e", "\"", ":", "\"", "P", "\"", ",", "\"", "l", "a", "t", "\"", ":", "1", ",", "\"", "l", "o", "n", "\"", ":", "2", "}", ",", "{", "\"", "n", "a", "m", "e", "\"", ":", "\"", "Q", "\"", ",", "\"", "l", "a", "t", "\"", ":", "3", ",", "\"", "l", "o", "n", "\"", ":", "4", "}", ",", "{", "\"", "n", "a", "m", "e", "\"", ":", "\"", "R", "\"", ",", "\"", "l", "a", "t", "\"", ":", "5", ",", "\"", "l", "o", "n", "\"", ":", "6", "}", "]">>,
     <<"[", "{", "\"", "l", "a", "t", "\"", ":", "1", ",", "\"", "l", "o", "n", "\"", ":", "2", "}", ",", "n", "u", "l", "l", "]">>,
     <<"[", "{", "\"", "l", "o", "n", "\"", ":", "4", "}", ",", "[", "1", ",", "2", "]", ",", "{", "\"", "n", "a", "m", "e", "\"", ":", "\"", "S", "\"", "}", "]">>,
     <<"[", "]">>}

\* the response that gives Route 1 that list
CityPayload(list) == <<"{", "\"", "R", "o", "u", "t", "e", " ", "1", "\"", ":", "{", "\"", "i", "n", "t", "e", "r", "m", "e", "d", "i", "a", "t", "e", "_", "c", "i", "t", "i", "e", "s", "\"", ":">> \o list \o <<"}", "}">>

\* a response in the format the prompt asks for: a name for the route
PayloadRenamed == <<"{", "\"", "R", "o", "u", "t", "e", " ", "1", "\"", ":", "{", "\"", "r", "o", "u", "t", "e", "_", "n", "a", "m", "e", "\"", ":", "\"", "T", "h", "e", " ", "C", "o", "a", "s", "t", "a", "l", " ", "E", "x", "p", "r", "e", "s", "s", "w", "a", "y", "\"", ",", "\"", "s", "h", "o", "r", "t", "_", "s", "u", "m", "m", "a", "r", "y", "\"", ":", "\"", "s", "\"", ",", "\"", "r", "e", "a", "s", "o", "n", "i", "n", "g", "\"", ":", "\"", "r", "\"", ",", "\"", "i", "n", "t", "e", "r", "m", "e", "d", "i", "a", "t", "e", "_", "c", "i", "t", "i", "e", "s", "\"", ":", "[", "]", "}", "}">>

\* a response that also gives scores of its own
PayloadScores == <<"{", "\"", "R", "o", "u", "t", "e", " ", "1", "\"", ":", "{", "\"", "s", "h", "o", "r", "t", "_", "s", "u", "m", "m", "a", "r", "y", "\"", ":", "\"", "s", "\"", ",", "\"", "r", "e", "a", "s", "o", "n", "i", "n", "g", "\"", ":", "\"", "r", "\"", ",", "\"", "w", "e", "a", "t", "h", "e", "r", "_", "r", "i", "s", "k", "_", "s", "c", "o", "r", "e", "\"", ":", "9", "9", ",", "\"", "r", "o", "a", "d", "_", "s", "a", "f", "e", "t", "y", "_", "s", "c", "o", "r", "e", "\"", ":", "7", ",", "\"", "c", "a", "r", "b", "o", "n", "_", "s", "c", "o", "r", "e", "\"", ":", "3", ",", "\"", "o", "v", "e", "r", "a", "l", "l", "_", "r", "e", "s", "i", "l", "i", "e", "n", "c", "e", "_", "s", "c", "o", "r", "e", "\"", ":", "1", "}", "}">>

\* a payload in code fences: with or without the json tag on the opening
\* fence, with or without a newline after the closing fence
Fenced(tagged, trailing, payload) ==
    (IF tagged THEN FenceJson ELSE Fence) \o <<"\n">> \o payload \o <<"\n">> \o Fence
    \o (IF trailing THEN <<"\n">> ELSE <<>>)

SummaryTexts ==
    { Fenced(tagged, trailing, Payload1) : tagged \in BOOLEAN, trailing \in BOOLEAN }
    \cup { Payload12, PayloadList, PayloadText, PayloadNullCities, Apology }
    \cup { CityPayload(l) : l \in CityLists }
    \cup { PayloadRenamed, PayloadScores }

SummarizerOutcomes ==
    { [key |-> FALSE, raises |-> FALSE, text |-> <<>>],
      [key |-> TRUE, raises |-> TRUE, text |-> <<>>] }
    \cup { [key |-> TRUE, raises |-> FALSE, text |-> t] : t \in SummaryTexts }

NoOutcome == [key |-> FALSE, raises |-> FALSE, text |-> <<>>]

\* the result analyze_routes returns on an error
ErrorResult(error) ==
    [error |-> error, routes |-> <<>>, resilience_scores |-> PyNone,
     analysis_complete |-> FALSE]

PipelineIdle ==
    /\ pc = "idle"
    /\ max_alternatives = 0
    /\ primary_resp = NoneResponse
    /\ fallback_resp = NoneResponse
    /\ primary_calls = 0
    /\ fallback_calls = 0
    /\ routes = <<>>
    /\ time_results = <<>>
    /\ distance_results = <<>>
    /\ carbon_results = <<>>
    /\ segments_data = <<>>
    /\ idx = 0
    /\ weather_results = <<>>
    /\ road_results = <<>>
    /\ safety_scores = EmptyDict
    /\ resilience_results = <<>>
    /\ temp_routes_data = <<>>
    /\ summ_outcome = NoOutcome
    /\ gemini_results = JObj(EmptyDict)
    /\ result = PyNone
    /\ invoked = {}
    /\ faulty = {}

PipelineInit ==
    /\ pc = "get_primary"
    /\ max_alternatives \in 0..MaxRoutes
    /\ primary_resp = NoneResponse
    /\ fallback_resp = NoneResponse
    /\ primary_calls = 0
    /\ fallback_calls = 0
    /\ routes = <<>>
    /\ time_results = <<>>
    /\ distance_results = <<>>
    /\ carbon_results = <<>>
    /\ segments_data = <<>>
    /\ idx = 0
    /\ weather_results = <<>>
    /\ road_results = <<>>
    /\ safety_scores = EmptyDict
    /\ resilience_results = <<>>
    /\ temp_routes_data = <<>>
    /\ summ_outcome = NoOutcome
    /\ gemini_results = JObj(EmptyDict)
    /\ result = PyNone
    /\ invoked = {}
    /\ faulty = {}

\* _get_routes, the primary provider: its routes, if it has any
GetRoutesPrimary ==
    /\ pc = "get_primary"
    /\ \E resp \in ProviderResponses :
        /\ primary_resp' = resp
        /\ primary_calls' = primary_calls + 1
        /\ IF HasRoutes(resp)
           THEN /\ routes' = FirstRoutes(resp.routes, max_alternatives)
                /\ pc' = "check_routes"
           ELSE /\ routes' = routes
                /\ pc' = "get_fallback"
    /\ UNCHANGED <<max_alternatives, fallback_resp, fallback_calls, time_results,
                   distance_results, carbon_results, segments_data, idx,
                   weather_results, road_results, safety_scores,
                   resilience_results, temp_routes_data, summ_outcome,
                   gemini_results, result,
                   invoked, faulty>>

\* _get_routes, the fallback: asked once if it is available
GetRoutesFallback ==
    /\ pc = "get_fallback"
    /\ \E available \in BOOLEAN :
        \E resp \in (IF available THEN ProviderResponses ELSE {NoneResponse}) :
            /\ fallback_resp' = resp
            /\ fallback_calls' = IF available THEN fallback_calls + 1 ELSE fallback_calls
            /\ routes' = IF available /\ HasRoutes(resp)
                         THEN FirstRoutes(resp.routes, max_alternatives)
                         ELSE <<>>
    /\ pc' = "check_routes"
    /\ UNCHANGED <<max_alternatives, primary_resp, primary_calls, time_results,
                   distance_results, carbon_results, segments_data, idx,
                   weather_results, road_results, safety_scores,
                   resilience_results, temp_routes_data, summ_outcome,
                   gemini_results, result,
                   invoked, faulty>>

\* the naming of the routes, counted from 0
NameRoutes_ZeroBased(rs) ==
    [k \in DOMAIN rs |->
        IF "route_name" \notin DOMAIN rs[k] \/ rs[k].route_name = <<>>
        THEN Update(rs[k], [route_name |-> RouteName(k - 1)])
        ELSE rs[k]]

\* the naming of the routes
NameRoutes(rs) ==
    [k \in DOMAIN rs |->
        IF "route_name" \notin DOMAIN rs[k] \/ rs[k].route_name = <<>>
        THEN Update(rs[k], [route_name |-> RouteName(k)])
        ELSE rs[k]]

\* a mutant of NoRoutes: the check for an empty route list is missing
NoRoutes_Never(rs) == FALSE

\* `not routes`
NoRoutes(rs) == rs = <<>>

\* no routes: the error result; else the routes are named
CheckRoutes ==
    /\ pc = "check_routes"
    /\ IF NoRoutes(routes)
       THEN /\ result' = ErrorResult("No routes found")
            /\ pc' = "done"
            /\ UNCHANGED routes
       ELSE /\ routes' = NameRoutes(routes)
            /\ pc' = "analyze"
            /\ UNCHANGED result
    /\ UNCHANGED <<max_alternatives, primary_resp, fallback_resp, primary_calls,
                   fallback_calls, time_results, distance_results,
                   carbon_results, segments_data, idx, weather_results,
                   road_results, safety_scores, resilience_results,
                   temp_routes_data, summ_outcome, gemini_results, invoked, faulty>>

reqvars == <<max_alternatives, primary_resp, fallback_resp, primary_calls,
             fallback_calls>>
sumvars == <<summ_outcome, gemini_results>>

\* the time and distance analyses and the segmentation of every route
Analyze ==
    /\ pc = "analyze"
    /\ time_results' = TimeAnalyze(routes)
    /\ distance_results' = DistanceAnalyze(routes)
    /\ \E worlds \in [DOMAIN routes -> PipelineWorlds] :
        segments_data' =
            [k \in DOMAIN routes |->
                [route_name |-> routes[k].route_name,
                 segments |-> [j \in DOMAIN worlds[k] |->
                                  Segment(j, worlds[k][j].length_m)],
                 road |-> [j \in DOMAIN worlds[k] |-> RoadAnswer(worlds[k][j])]]]
    /\ idx' = 0
    /\ invoked' = invoked \cup {"time", "distance", "segmenter"}
    /\ pc' = "safety"
    /\ UNCHANGED <<reqvars, sumvars, temp_routes_data, routes, carbon_results, weather_results,
                   road_results, safety_scores, resilience_results, result, faulty>>

\* one iteration of the safety loop: calculate for the route at idx
SafetyRoute ==
    /\ pc = "safety"
    /\ idx < Len(segments_data)
    /\ LET data == segments_data[idx + 1]
           route_name == data.route_name
       IN  \E resp \in (IF NoSegments(data.segments)
                        THEN {NoResponse} ELSE PipelineWeather) :
             LET analysis_result == calculate(data.segments, data.road, <<resp>>)
                 w_result == Update(analysis_result.weather_analysis,
                                    [route_name |-> route_name])
                 r_result == Update(analysis_result.road_analysis,
                                    [route_name |-> route_name])
             IN  /\ safety_scores' =
                        Update(safety_scores,
                               route_name :> analysis_result.road_safety_score)
                 /\ weather_results' = Append(weather_results, w_result)
                 /\ road_results' = Append(road_results, r_result)
                 /\ faulty' = IF NoSegments(data.segments)
                              THEN faulty \cup {idx + 1} ELSE faulty
    /\ idx' = idx + 1
    /\ invoked' = invoked \cup {"safety"}
    /\ UNCHANGED <<reqvars, sumvars, temp_routes_data, pc, result, routes, time_results,
                   distance_results, carbon_results, segments_data,
                   resilience_results>>

\* {r["route_name"]: r.get("road_quality_score", 0) for r in road_results}
RoadQualityScores(results) ==
    [name \in NamesOf(results) |->
        Get(results[LastNamed(results, name)], "road_quality_score", R(0))]

\* whether building the summarizer context raises KeyError: it reads
\* road_results[i]["avg_weather_risk"] for every route
ContextKeyError(rs, results) ==
    \E k \in DOMAIN rs :
        k <= Len(results) /\ "avg_weather_risk" \notin DOMAIN results[k]

\* the context with the resilience result at the mirrored position
TempRoutesData_Mirrored(rs, resilience, road, safety, carbon_scores) ==
    [i \in DOMAIN rs |->
        [route_name |-> rs[i].route_name,
         overall_resilience_score |->
             resilience[Len(resilience) + 1 - i].overall_resilience_score,
         component_scores |-> resilience[Len(resilience) + 1 - i].component_scores,
         avg_weather_risk |-> road[i].avg_weather_risk,
         road_safety_score |-> Get(safety, rs[i].route_name, Rat(1, 2)),
         carbon_score |-> Get(carbon_scores, rs[i].route_name, R(0))]]

\* temp_routes_data: the i-th route with the i-th resilience result and the
\* i-th road result (every road result has its avg_weather_risk here)
TempRoutesData(rs, resilience, road, safety, carbon_scores) ==
    [i \in DOMAIN rs |->
        [route_name |-> rs[i].route_name,
         overall_resilience_score |->
             IF i <= Len(resilience)
             THEN resilience[i].overall_resilience_score ELSE R(0),
         component_scores |->
             IF i <= Len(resilience) THEN resilience[i].component_scores ELSE EmptyDict,
         avg_weather_risk |->
             IF i <= Len(road) THEN road[i].avg_weather_risk ELSE R(0),
         road_safety_score |-> Get(safety, rs[i].route_name, Rat(1, 2)),
         carbon_score |-> Get(carbon_scores, rs[i].route_name, R(0))]]

\* after the safety loop: the carbon analysis, the resilience scores and the
\* context for the summarizer
Scores ==
    /\ pc = "safety"
    /\ idx = Len(segments_data)
    /\ carbon_results' = CarbonAnalyze(routes)
    /\ resilience_results' =
           ResilienceCalculate([k \in DOMAIN routes |-> routes[k].route_name],
                               DictBy(time_results, "time_score"),
                               DictBy(distance_results, "distance_score"),
                               DictBy(CarbonAnalyze(routes), "carbon_score"),
                               RoadQualityScores(road_results),
                               DefaultPriorities)
    /\ invoked' = invoked \cup {"carbon", "resilience"}
    /\ IF ContextKeyError(routes, road_results)
       THEN /\ result' = ErrorResult("avg_weather_risk")
            /\ pc' = "done"
            /\ UNCHANGED temp_routes_data
       ELSE /\ pc' = "summarize"
            /\ temp_routes_data' =
                   TempRoutesData(routes, resilience_results', road_results,
                                  safety_scores,
                                  DictBy(CarbonAnalyze(routes), "carbon_score"))
            /\ UNCHANGED result
    /\ UNCHANGED <<reqvars, sumvars, routes, time_results, distance_results,
                   segments_data, idx, weather_results, road_results,
                   safety_scores, faulty>>

\* generate_summary
Summarize ==
    /\ pc = "summarize"
    /\ \E outcome \in SummarizerOutcomes :
        /\ summ_outcome' = outcome
        /\ gemini_results' = generate_summary(outcome)
    /\ invoked' = invoked \cup {"summarizer"}
    /\ pc' = "combine"
    /\ UNCHANGED <<reqvars, temp_routes_data, routes, time_results, distance_results,
                   carbon_results, segments_data, idx, weather_results,
                   road_results, safety_scores, resilience_results, result, faulty>>

\* _combine_results and the result; an exception gives the error result
Combine ==
    /\ pc = "combine"
    /\ LET combined == combine_results(routes, time_results, distance_results,
                                       carbon_results, road_results,
                                       resilience_results, safety_scores,
                                       gemini_results)
           formatted_scores == FormatResults(resilience_results)
       IN  result' = IF combined.raised
                     THEN ErrorResult(combined.error)
                     ELSE [routes |-> combined.value,
                           resilience_scores |-> formatted_scores,
                           best_route |-> formatted_scores.best_route_name,
                           analysis_complete |-> TRUE]
    /\ pc' = "done"
    /\ UNCHANGED <<reqvars, sumvars, temp_routes_data, routes, time_results, distance_results,
                   carbon_results, segments_data, idx, weather_results,
                   road_results, safety_scores, resilience_results, invoked, faulty>>

(***************************************************************************)
(* GeminiResilienceScorer (resilience/gemini_scorer.py): the repair of the *)
(* generator's text, and the validation of the scores it holds.            *)
(***************************************************************************)
\* the position (from 1) that ends the first brace-delimited block, 0 if the
\* braces opened from position i on are never all closed
RECURSIVE BraceEnd(_, _, _)
BraceEnd(text, i, depth) ==
    IF i > Len(text) THEN 0
    ELSE IF text[i] = "{" THEN BraceEnd(text, i + 1, depth + 1)
    ELSE IF text[i] = "}"
         THEN IF depth - 1 = 0 THEN i ELSE BraceEnd(text, i + 1, depth - 1)
    ELSE BraceEnd(text, i + 1, depth)

\* text.replace(a, b) for single characters
ReplaceAll(text, a, b) == [k \in 1..Len(text) |-> IF text[k] = a THEN b ELSE text[k]]

\* re.sub(r',\s*X', 'X', text) for a closing character X
RECURSIVE RemoveCommaBefore(_, _, _)
RemoveCommaBefore(text, closer, p) ==
    IF p > Len(text) THEN <<>>
    ELSE LET q == SkipWs(text, p + 1)
         IN  IF text[p] = "," /\ q <= Len(text) /\ text[q] = closer
             THEN <<closer>> \o RemoveCommaBefore(text, closer, q + 1)
             ELSE <<text[p]>> \o RemoveCommaBefore(text, closer, p + 1)

\* the cleaning of common issues
Cleaned(json_text) ==
    RemoveCommaBefore(
        RemoveCommaBefore(ReplaceAll(json_text, Apostrophe, "\""), "}", 1), "]", 1)

\* the last resort: the block is parsed after cleaning
ParseCleaned(cleaned) == IF cleaned.ok THEN cleaned.val ELSE PyNone

\* the first brace-delimited block is parsed, as it is or cleaned
ParseBlock(json_text, block) ==
    IF block.ok THEN block.val ELSE ParseCleaned(json_loads(Cleaned(json_text)))

\* the block from start_idx to the brace that closes it, if there is one
FirstBlock(text, start_idx, end) ==
    IF end = 0 THEN PyNone
    ELSE ParseBlock(SubSeq(text, start_idx + 1, end),
                    json_loads(SubSeq(text, start_idx + 1, end)))

\* what follows the direct parse
AfterDirect(text, direct, start_idx) ==
    IF direct.ok THEN direct.val
    ELSE IF start_idx = -1 THEN PyNone
    ELSE FirstBlock(text, start_idx, BraceEnd(text, start_idx + 1, 0))

\* _extract_json_from_text: the parsed value, or None
extract_json_from_text(text) == AfterDirect(text, json_loads(text), Find(text, "{"))

\* the calls of json.loads on a block: the cleaned block first
BlockCalls_CleanedFirst(json_text, block) ==
    <<Cleaned(json_text)>> \o (IF json_loads(Cleaned(json_text)).ok THEN <<>> ELSE <<json_text>>)

\* the calls of json.loads on a block: as it is, then cleaned if that failed
BlockCalls(json_text, block) ==
    <<json_text>> \o (IF block.ok THEN <<>> ELSE <<Cleaned(json_text)>>)

\* the calls that follow the direct parse
CallsAfterDirect(text, direct, start_idx, end) ==
    IF direct.ok \/ start_idx = -1 \/ end = 0 THEN <<>>
    ELSE BlockCalls(SubSeq(text, start_idx + 1, end),
                    json_loads(SubSeq(text, start_idx + 1, end)))

\* the texts _extract_json_from_text hands to json.loads, in order
LoadsCalls(text) ==
    <<text>> \o CallsAfterDirect(text, json_loads(text), Find(text, "{"),
                                 IF Find(text, "{") = -1 THEN 0
                                 ELSE BraceEnd(text, Find(text, "{") + 1, 0))

\* the lower case of the letters of nan, inf and infinity
Lower(c) ==
    CASE c = "N" -> "n" [] c = "A" -> "a" [] c = "I" -> "i" [] c = "F" -> "f"
      [] c = "T" -> "t" [] c = "Y" -> "y" [] OTHER -> c

\* the float of a str without its sign: nan, inf, infinity (in any case),
\* or the decimal literal of parts n
FloatOfBody(neg, body, word, n) ==
    IF word = <<"n", "a", "n">> THEN Returned(JNaN)
    ELSE IF word \in {<<"i", "n", "f">>, <<"i", "n", "f", "i", "n", "i", "t", "y">>}
         THEN Returned(JInf(IF neg THEN -1 ELSE 1))
    ELSE IF /\ (n.int_digits > 0 \/ n.frac_digits > 0)
            /\ (n.exp => n.exp_digits > 0)
            /\ n.pos = Len(body) + 1
         THEN Returned(FloatOf(neg, n))
    ELSE Raised("ValueError")

FloatOfSigned(neg, body) ==
    FloatOfBody(neg, body, [k \in 1..Len(body) |-> Lower(body[k])], ScanNumber(body, 1))

FloatOfStripped(s) ==
    IF s # <<>> /\ s[1] \in {"+", "-"}
    THEN FloatOfSigned(s[1] = "-", Tail(s))
    ELSE FloatOfSigned(FALSE, s)

\* float(s) for a str: surrounding whitespace and a sign are allowed
PyFloat(chars) == FloatOfStripped(Strip(chars))

\* float(val)
ToFloat(val) ==
    CASE val.t = "num" -> Returned(JFloat(R(val.v)))
      [] val.t = "float" -> Returned(val)
      [] val.t = "bool" -> Returned(JFloat(R(IF val.v THEN 1 ELSE 0)))
      [] val.t \in {"nan", "inf"} -> Returned(val)
      [] val.t = "str" -> PyFloat(val.v)
      [] OTHER -> Raised("TypeError")

\* round(f) of a finite float: to the nearest int, a tie to the even one
RoundHalfEven(r) ==
    LET fl == r.n \div r.d
        rest == 2 * (r.n - fl * r.d)
    IN  IF rest < r.d THEN fl
        ELSE IF rest > r.d THEN fl + 1
        ELSE IF fl % 2 = 0 THEN fl ELSE fl + 1

\* int(round(f))
IntRound(f) ==
    CASE f.t = "nan" -> Raised("ValueError")
      [] f.t = "inf" -> Raised("OverflowError")
      [] OTHER -> Returned(RoundHalfEven(f.v))

\* max(0, min(100, v))
ClampRange(v) == IF v < 0 THEN 0 ELSE IF v > 100 THEN 100 ELSE v

\* the except clause of clamp_int: ValueError and TypeError give 50, any
\* other exception is raised
ClampOutcome(v) ==
    IF v.raised
    THEN IF v.error \in {"ValueError", "TypeError"} THEN Returned(50) ELSE v
    ELSE Returned(ClampRange(v.value))

\* int(round(float(val))), f being float(val)
IntRoundOf(f) == IF f.raised THEN f ELSE IntRound(f.value)

clamp_int(val) == ClampOutcome(IntRoundOf(ToFloat(val)))

K_routes == <<"r", "o", "u", "t", "e", "s">>
K_ranked_routes == <<"r", "a", "n", "k", "e", "d", "_", "r", "o", "u", "t", "e", "s">>
K_best_route_name == <<"b", "e", "s", "t", "_", "r", "o", "u", "t", "e", "_", "n", "a", "m", "e">>
K_reason_for_selection == <<"r", "e", "a", "s", "o", "n", "_", "f", "o", "r", "_", "s", "e", "l", "e", "c", "t", "i", "o", "n">>
K_weather_risk_score == <<"w", "e", "a", "t", "h", "e", "r", "_", "r", "i", "s", "k", "_", "s", "c", "o", "r", "e">>
K_road_safety_score == <<"r", "o", "a", "d", "_", "s", "a", "f", "e", "t", "y", "_", "s", "c", "o", "r", "e">>
K_social_risk_score == <<"s", "o", "c", "i", "a", "l", "_", "r", "i", "s", "k", "_", "s", "c", "o", "r", "e">>
K_traffic_risk_score == <<"t", "r", "a", "f", "f", "i", "c", "_", "r", "i", "s", "k", "_", "s", "c", "o", "r", "e">>
K_overall_resilience_score == <<"o", "v", "e", "r", "a", "l", "l", "_", "r", "e", "s", "i", "l", "i", "e", "n", "c", "e", "_", "s", "c", "o", "r", "e">>
UnknownRoute == <<"U", "n", "k", "n", "o", "w", "n", " ", "R", "o", "u", "t", "e">>
NoSummary == <<"N", "o", " ", "s", "u", "m", "m", "a", "r", "y", " ", "a", "v", "a", "i", "l", "a", "b", "l", "e">>
NoReasoning == <<"N", "o", " ", "r", "e", "a", "s", "o", "n", "i", "n", "g", " ", "p", "r", "o", "v", "i", "d", "e", "d">>
DefaultReason == <<"S", "e", "l", "e", "c", "t", "e", "d", " ", "b", "a", "s", "e", "d", " ", "o", "n", " ", "o", "v", "e", "r", "a", "l", "l", " ", "r", "e", "s", "i", "l", "i", "e", "n", "c", "e", " ", "s", "c", "o", "r", "e">>

\* one entry of validated_routes with the weather and road scores written
\* under each other's key
RouteEntry_Swapped(route, score) ==
    Returned(JObj(
        (K_route_name :> Get(route.v, K_route_name, JStr(UnknownRoute)))
     @@ (K_weather_risk_score :> JNum(score[2].value))
     @@ (K_road_safety_score :> JNum(score[1].value))
     @@ (K_social_risk_score :> JNum(score[3].value))
     @@ (K_traffic_risk_score :> JNum(score[4].value))
     @@ (K_overall_resilience_score :> JNum(score[5].value))
     @@ (K_short_summary :> Get(route.v, K_short_summary, JStr(NoSummary)))
     @@ (K_reasoning :> Get(route.v, K_reasoning, JStr(NoReasoning)))))

\* one entry of validated_routes, given the five clamped scores
RouteEntry(route, score) ==
    IF \E k \in 1..5 : score[k].raised
    THEN score[CHOOSE k \in 1..5 :
                   score[k].raised /\ \A j \in 1..(k - 1) : ~score[j].raised]
    ELSE Returned(JObj(
             (K_route_name :> Get(route.v, K_route_name, JStr(UnknownRoute)))
          @@ (K_weather_risk_score :> JNum(score[1].value))
          @@ (K_road_safety_score :> JNum(score[2].value))
          @@ (K_social_risk_score :> JNum(score[3].value))
          @@ (K_traffic_risk_score :> JNum(score[4].value))
          @@ (K_overall_resilience_score :> JNum(score[5].value))
          @@ (K_short_summary :> Get(route.v, K_short_summary, JStr(NoSummary)))
          @@ (K_reasoning :> Get(route.v, K_reasoning, JStr(NoReasoning)))))

\* one entry of validated_routes
ValidatedRoute(route) ==
    IF route.t # "obj" THEN Raised("AttributeError")
    ELSE RouteEntry(route,
                    <<clamp_int(Get(route.v, K_weather_risk_score, JNum(50))),
                      clamp_int(Get(route.v, K_road_safety_score, JNum(50))),
                      clamp_int(Get(route.v, K_social_risk_score, JNum(50))),
                      clamp_int(Get(route.v, K_traffic_risk_score, JNum(50))),
                      clamp_int(Get(route.v, K_overall_resilience_score, JNum(50)))>>)

\* the items a for loop over a JSON value visits
IterItems(j) ==
    CASE j.t = "arr" -> Returned(j.v)
      [] j.t = "str" -> Returned([k \in 1..Len(j.v) |-> JStr(<<j.v[k]>>)])
      [] j.t = "obj" ->
            LET n == Cardinality(DOMAIN j.v)
                order == CHOOSE f \in [1..n -> DOMAIN j.v] :
                             \A a, b \in 1..n : a # b => f[a] # f[b]
            IN  Returned([k \in 1..n |-> JStr(order[k])])
      [] OTHER -> Raised("TypeError")

\* the loop that fills validated_routes
RECURSIVE ValidatedRoutes(_, _)
AppendRoute(items, acc, r) ==
    IF r.raised THEN r ELSE ValidatedRoutes(Tail(items), Append(acc, r.value))
ValidatedRoutes(items, acc) ==
    IF items = <<>> THEN Returned(acc)
    ELSE AppendRoute(items, acc, ValidatedRoute(Head(items)))

\* a == b for two JSON values: numbers by value, nan equal to nothing
IsNumber(j) == j.t \in {"num", "float", "bool"}
NumberValue(j) ==
    CASE j.t = "num" -> R(j.v)
      [] j.t = "float" -> j.v
      [] j.t = "bool" -> R(IF j.v THEN 1 ELSE 0)
RECURSIVE PyEq(_, _)
PyEq(a, b) ==
    IF IsNumber(a) /\ IsNumber(b) THEN NumberValue(a) = NumberValue(b)
    ELSE IF a.t = "nan" \/ b.t = "nan" THEN FALSE
    ELSE IF a.t # b.t THEN FALSE
    ELSE IF a.t = "arr"
         THEN /\ Len(a.v) = Len(b.v)
              /\ \A k \in 1..Len(a.v) : PyEq(a.v[k], b.v[k])
    ELSE IF a.t = "obj"
         THEN /\ DOMAIN a.v = DOMAIN b.v
              /\ \A k \in DOMAIN a.v : PyEq(a.v[k], b.v[k])
    ELSE a.v = b.v

\* the key of the sort: the score of the first validated route of that name
OverallOf(validated_routes, name) ==
    IF \E k \in 1..Len(validated_routes) :
           PyEq(validated_routes[k].v[K_route_name], name)
    THEN validated_routes[
             CHOOSE k \in 1..Len(validated_routes) :
                 /\ PyEq(validated_routes[k].v[K_route_name], name)
                 /\ \A j \in 1..(k - 1) :
                        ~PyEq(validated_routes[j].v[K_route_name], name)
         ].v[K_overall_resilience_score].v
    ELSE 0

\* sorted(..., reverse=True) is stable: a name goes after the names of a
\* score at least its own
InsertSorted(sorted, name, validated_routes) ==
    LET key == OverallOf(validated_routes, name)
        before == SelectSeq(sorted, LAMBDA x : OverallOf(validated_routes, x) >= key)
        after == SelectSeq(sorted, LAMBDA x : OverallOf(validated_routes, x) < key)
    IN  before \o <<name>> \o after

RECURSIVE SortedNames(_, _, _)
SortedNames(names, sorted, validated_routes) ==
    IF names = <<>> THEN sorted
    ELSE SortedNames(Tail(names), InsertSorted(sorted, Head(names), validated_routes),
                     validated_routes)

\* the ranking generated from the scores
GeneratedRanking(validated_routes) ==
    SortedNames([k \in 1..Len(validated_routes) |-> validated_routes[k].v[K_route_name]],
                <<>>, validated_routes)

\* ranked[0] for a truthy ranked
First(ranked) ==
    CASE ranked.t = "arr" -> Returned(ranked.v[1])
      [] ranked.t = "str" -> Returned(JStr(<<ranked.v[1]>>))
      [] ranked.t = "obj" -> Raised("KeyError")
      [] OTHER -> Raised("TypeError")

\* the dictionary _validate_scores returns
ValidatedDict(parsed, validated_routes, ranked, best) ==
    IF best.raised THEN best
    ELSE Returned(JObj(
             (K_routes :> JArr(validated_routes))
          @@ (K_ranked_routes :> ranked)
          @@ (K_best_route_name :> best.value)
          @@ (K_reason_for_selection :>
                 Get(parsed.v, K_reason_for_selection, JStr(DefaultReason)))))

\* best = parsed.get("best_route_name") or (ranked[0] if ranked else None)
BestOf(named, ranked) ==
    IF Truthy(named) THEN Returned(named)
    ELSE IF Truthy(ranked) THEN First(ranked)
    ELSE Returned(JNull)

WithRanking(parsed, validated_routes, ranked) ==
    ValidatedDict(parsed, validated_routes, ranked,
                  BestOf(Get(parsed.v, K_best_route_name, JNull), ranked))

\* the ranking of the response, or one generated if it has none
WithRoutes(parsed, validated_routes, given) ==
    IF Truthy(given) THEN WithRanking(parsed, validated_routes, given)
    ELSE WithRanking(parsed, validated_routes,
                     JArr(GeneratedRanking(validated_routes)))

AfterLoop(parsed, validated) ==
    IF validated.raised THEN validated
    ELSE WithRoutes(parsed, validated.value, Get(parsed.v, K_ranked_routes, JArr(<<>>)))

LoopOver(parsed, items) ==
    IF items.raised THEN items
    ELSE AfterLoop(parsed, ValidatedRoutes(items.value, <<>>))

\* _validate_scores
validate_scores(parsed) ==
    IF parsed.t # "obj" THEN Raised("AttributeError")
    ELSE LoopOver(parsed, IterItems(Get(parsed.v, K_routes, JArr(<<>>))))

\* score_routes: the state of one call
VARIABLES
    gs_pc,          \* "idle", "call", "generate", "extract", "validate", "done"
    gs_model,       \* whether the Gemini model is initialized
    gs_routes_data, \* routes_data: the route_name of each route to score
    gs_attempt,     \* the attempts of generate_content that failed
    gs_text,        \* response_text
    gs_loads,       \* the texts handed to json.loads by _extract_json_from_text, in order
    gs_calls,       \* the outcomes of the calls of generate_content, in order: "error" or "text"
    gs_parsed,      \* what _extract_json_from_text returned
    gs_validated,   \* what _validate_scores returned or raised
    gs_result       \* what score_routes returned

gsvars == <<gs_pc, gs_model, gs_routes_data, gs_attempt, gs_calls, gs_text, gs_loads, gs_parsed, gs_validated, gs_result>>

max_retries == 3

\* the literals a generator can write for a score
ScoreLiterals ==
    {<<"-", "5">>, <<"1", "5", "0">>, <<"4", "2">>, <<"2", ".", "5">>, <<"3", ".", "5">>, <<"-", "0", ".", "4">>, <<"1", "0", "0", ".", "5">>, <<"1", "e", "3">>, <<"\"", "1", "5", "0", "\"">>, <<"\"", "a", "b", "c", "\"">>,
     <<"\"", "n", "a", "n", "\"">>, <<"N", "a", "N">>, <<"I", "n", "f", "i", "n", "i", "t", "y">>, <<"-", "I", "n", "f", "i", "n", "i", "t", "y">>, <<"\"", "i", "n", "f", "\"">>, <<"1", "e", "9", "9", "9">>, <<"n", "u", "l", "l">>, <<"t", "r", "u", "e">>,
     <<"[", "1", "]">>}

\* a response whose one route has that literal for its overall score, and has
\* no other score
ScoreText(literal) ==
    <<"{", "\"", "r", "o", "u", "t", "e", "s", "\"", ":", "[", "{", "\"", "r", "o", "u", "t", "e", "_", "n", "a", "m", "e", "\"", ":", "\"", "A", "\"", ",", "\"", "o", "v", "e", "r", "a", "l", "l", "_", "r", "e", "s", "i", "l", "i", "e", "n", "c", "e", "_", "s", "c", "o", "r", "e", "\"", ":">> \o literal \o <<"}", "]", "}">>

\* a response whose one route has no score at all
NoScoreText == <<"{", "\"", "r", "o", "u", "t", "e", "s", "\"", ":", "[", "{", "\"", "r", "o", "u", "t", "e", "_", "n", "a", "m", "e", "\"", ":", "\"", "A", "\"", "}", "]", "}">>

\* valid JSON objects
EmbeddedObjects ==
    {<<"{", "\"", "r", "o", "u", "t", "e", "s", "\"", ":", "[", "{", "\"", "r", "o", "u", "t", "e", "_", "n", "a", "m", "e", "\"", ":", "\"", "A", "\"", ",", "\"", "r", "o", "a", "d", "_", "s", "a", "f", "e", "t", "y", "_", "s", "c", "o", "r", "e", "\"", ":", "8", "0", "}", "]", "}">>,
     <<"{", "\"", "r", "e", "a", "s", "o", "n", "_", "f", "o", "r", "_", "s", "e", "l", "e", "c", "t", "i", "o", "n", "\"", ":", "\"", "a", "{", "b", "}", "c", "\"", "}">>,
     <<"{", "\"", "r", "e", "a", "s", "o", "n", "_", "f", "o", "r", "_", "s", "e", "l", "e", "c", "t", "i", "o", "n", "\"", ":", "\"", "i", "t", Apostrophe, "s", "\"", "}">>,
     <<"{", "\"", "r", "e", "a", "s", "o", "n", "_", "f", "o", "r", "_", "s", "e", "l", "e", "c", "t", "i", "o", "n", "\"", ":", "\"", "}", "\"", "}">>,
     <<"{", "\"", "r", "e", "a", "s", "o", "n", "_", "f", "o", "r", "_", "s", "e", "l", "e", "c", "t", "i", "o", "n", "\"", ":", "\"", "{", "\"", "}">>}

\* what a generator puts around an object
Wrappers == {"commentary", "preamble", "fence"}
Wrap(w, object) ==
    CASE w = "commentary" -> <<"H", "e", "r", "e", ":", " ">> \o object \o <<" ", "D", "o", "n", "e", ".">>
      [] w = "preamble" -> <<"R", "e", "s", "u", "l", "t", ":", " ">> \o object
      [] w = "fence" -> FenceJson \o <<"\n">> \o object \o <<"\n">> \o Fence

\* objects valid except for single-quoted strings or trailing commas, each
\* with the valid object it stands for
RepairCases ==
    {[broken |-> <<"{", Apostrophe, "r", "o", "u", "t", "e", "s", Apostrophe, ":", "[", "]", "}">>, repaired |-> <<"{", "\"", "r", "o", "u", "t", "e", "s", "\"", ":", "[", "]", "}">>],
     [broken |-> <<"{", "\"", "r", "o", "u", "t", "e", "s", "\"", ":", "[", "{", "\"", "r", "o", "u", "t", "e", "_", "n", "a", "m", "e", "\"", ":", "\"", "A", "\"", ",", "}", ",", "]", ",", "}">>,
      repaired |-> <<"{", "\"", "r", "o", "u", "t", "e", "s", "\"", ":", "[", "{", "\"", "r", "o", "u", "t", "e", "_", "n", "a", "m", "e", "\"", ":", "\"", "A", "\"", "}", "]", "}">>],
     [broken |-> <<"{", Apostrophe, "r", "o", "u", "t", "e", "s", Apostrophe, ":", "[", "{", Apostrophe, "r", "o", "u", "t", "e", "_", "n", "a", "m", "e", Apostrophe, ":", Apostrophe, "A", Apostrophe, " ", ",", " ", "}", " ", "]", " ", ",", " ", "}">>,
      repaired |-> <<"{", "\"", "r", "o", "u", "t", "e", "s", "\"", ":", "[", "{", "\"", "r", "o", "u", "t", "e", "_", "n", "a", "m", "e", "\"", ":", "\"", "A", "\"", "}", "]", "}">>],
     [broken |-> <<"{", "\"", "r", "e", "a", "s", "o", "n", "_", "f", "o", "r", "_", "s", "e", "l", "e", "c", "t", "i", "o", "n", "\"", ":", "\"", "i", "t", Apostrophe, "s", "\"", ",", "}">>,
      repaired |-> <<"{", "\"", "r", "e", "a", "s", "o", "n", "_", "f", "o", "r", "_", "s", "e", "l", "e", "c", "t", "i", "o", "n", "\"", ":", "\"", "i", "t", Apostrophe, "s", "\"", "}">>]}

\* responses that are no object with a list of route objects
OtherTexts ==
    {<<>>, <<"S", "o", "r", "r", "y", ",", " ", "n", "o", ".">>, <<"n", "u", "l", "l">>, <<"[", "1", "]">>, <<"{", "\"", "r", "o", "u", "t", "e", "s", "\"", ":", "[", "1", "]", "}">>, <<"{", "\"", "r", "o", "u", "t", "e", "s", "\"", ":", "n", "u", "l", "l", "}">>,
     <<"{", "\"", "r", "a", "n", "k", "e", "d", "_", "r", "o", "u", "t", "e", "s", "\"", ":", "5", "}">>, <<"{", "\"", "r", "a", "n", "k", "e", "d", "_", "r", "o", "u", "t", "e", "s", "\"", ":", "[", "\"", "B", "\"", ",", "\"", "A", "\"", "]", ",", "\"", "b", "e", "s", "t", "_", "r", "o", "u", "t", "e", "_", "n", "a", "m", "e", "\"", ":", "\"", "B", "\"", "}">>,
     <<"{", "\"", "r", "o", "u", "t", "e", "s", "\"", ":", "[", "{", "\"", "r", "o", "u", "t", "e", "_", "n", "a", "m", "e", "\"", ":", "\"", "A", "\"", ",", "\"", "o", "v", "e", "r", "a", "l", "l", "_", "r", "e", "s", "i", "l", "i", "e", "n", "c", "e", "_", "s", "c", "o", "r", "e", "\"", ":", "1", "0", "}", ",", "{", "\"", "r", "o", "u", "t", "e", "_", "n", "a", "m", "e", "\"", ":", "\"", "B", "\"", ",", "\"", "o", "v", "e", "r", "a", "l", "l", "_", "r", "e", "s", "i", "l", "i", "e", "n", "c", "e", "_", "s", "c", "o", "r", "e", "\"", ":", "9", "0", "}", ",", "{", "\"", "r", "o", "u", "t", "e", "_", "n", "a", "m", "e", "\"", ":", "\"", "C", "\"", ",", "\"", "o", "v", "e", "r", "a", "l", "l", "_", "r", "e", "s", "i", "l", "i", "e", "n", "c", "e", "_", "s", "c", "o", "r", "e", "\"", ":", "1", "0", "}", "]", "}">>}

\* complete and partial responses in strict JSON: scores out of range, a
\* ranking given, missing, empty or of another type, a best route given or not
ValidationTexts ==
    {<<"{", "\"", "r", "o", "u", "t", "e", "s", "\"", ":", "[", "{", "\"", "r", "o", "u", "t", "e", "_", "n", "a", "m", "e", "\"", ":", "\"", "A", "\"", ",", "\"", "w", "e", "a", "t", "h", "e", "r", "_", "r", "i", "s", "k", "_", "s", "c", "o", "r", "e", "\"", ":", "1", "5", "0", ",", "\"", "r", "o", "a", "d", "_", "s", "a", "f", "e", "t", "y", "_", "s", "c", "o", "r", "e", "\"", ":", "\"", "8", "0", "\"", ",", "\"", "s", "o", "c", "i", "a", "l", "_", "r", "i", "s", "k", "_", "s", "c", "o", "r", "e", "\"", ":", "-", "3", ",", "\"", "t", "r", "a", "f", "f", "i", "c", "_", "r", "i", "s", "k", "_", "s", "c", "o", "r", "e", "\"", ":", "2", ".", "5", ",", "\"", "o", "v", "e", "r", "a", "l", "l", "_", "r", "e", "s", "i", "l", "i", "e", "n", "c", "e", "_", "s", "c", "o", "r", "e", "\"", ":", "7", "0", ",", "\"", "s", "h", "o", "r", "t", "_", "s", "u", "m", "m", "a", "r", "y", "\"", ":", "\"", "s", "\"", ",", "\"", "r", "e", "a", "s", "o", "n", "i", "n", "g", "\"", ":", "\"", "r", "\"", "}", "]", ",", "\"", "r", "a", "n", "k", "e", "d", "_", "r", "o", "u", "t", "e", "s", "\"", ":", "[", "\"", "A", "\"", "]", ",", "\"", "b", "e", "s", "t", "_", "r", "o", "u", "t", "e", "_", "n", "a", "m", "e", "\"", ":", "\"", "A", "\"", ",", "\"", "r", "e", "a", "s", "o", "n", "_", "f", "o", "r", "_", "s", "e", "l", "e", "c", "t", "i", "o", "n", "\"", ":", "\"", "x", "\"", "}">>,
     <<"{", "\"", "r", "o", "u", "t", "e", "s", "\"", ":", "[", "{", "\"", "o", "v", "e", "r", "a", "l", "l", "_", "r", "e", "s", "i", "l", "i", "e", "n", "c", "e", "_", "s", "c", "o", "r", "e", "\"", ":", "7", "}", "]", ",", "\"", "r", "a", "n", "k", "e", "d", "_", "r", "o", "u", "t", "e", "s", "\"", ":", "n", "u", "l", "l", ",", "\"", "b", "e", "s", "t", "_", "r", "o", "u", "t", "e", "_", "n", "a", "m", "e", "\"", ":", "\"", "\"", "}">>,
     <<"{", "\"", "r", "o", "u", "t", "e", "s", "\"", ":", "[", "{", "\"", "r", "o", "u", "t", "e", "_", "n", "a", "m", "e", "\"", ":", "n", "u", "l", "l", ",", "\"", "w", "e", "a", "t", "h", "e", "r", "_", "r", "i", "s", "k", "_", "s", "c", "o", "r", "e", "\"", ":", "3", "0", ",", "\"", "r", "o", "a", "d", "_", "s", "a", "f", "e", "t", "y", "_", "s", "c", "o", "r", "e", "\"", ":", "6", "0", "}", "]", ",", "\"", "r", "e", "a", "s", "o", "n", "_", "f", "o", "r", "_", "s", "e", "l", "e", "c", "t", "i", "o", "n", "\"", ":", "n", "u", "l", "l", "}">>,
     <<"{", "\"", "r", "o", "u", "t", "e", "s", "\"", ":", "{", "}", ",", "\"", "r", "a", "n", "k", "e", "d", "_", "r", "o", "u", "t", "e", "s", "\"", ":", "[", "0", ",", "\"", "A", "\"", "]", "}">>,
     <<"{", "\"", "r", "a", "n", "k", "e", "d", "_", "r", "o", "u", "t", "e", "s", "\"", ":", "\"", "B", "A", "\"", "}">>,
     <<"{", "\"", "r", "o", "u", "t", "e", "s", "\"", ":", "[", "]", ",", "\"", "r", "a", "n", "k", "e", "d", "_", "r", "o", "u", "t", "e", "s", "\"", ":", "[", "]", "}">>}

\* texts with a first block that is no JSON before a valid one, and with
\* braces that are never closed
LadderTexts ==
    {<<"{", "o", "o", "p", "s", "}", " ", "{", "\"", "r", "o", "u", "t", "e", "s", "\"", ":", "[", "]", "}">>, <<"x", " ", "{", "\"", "r", "o", "u", "t", "e", "s", "\"", ":", "[">>, <<"}", "{">>, <<"[", "{", "\"", "r", "o", "u", "t", "e", "s", "\"", ":", "[", "]", "}", "]", " ", "{", "\"", "r", "o", "u", "t", "e", "s", "\"", ":", "[", "1", "]", ",", "}">>}

ResponseTexts ==
    {ScoreText(l) : l \in ScoreLiterals} \cup {NoScoreText}
    \cup {Wrap(w, o) : w \in Wrappers, o \in EmbeddedObjects}
    \cup {c.broken : c \in RepairCases}
    \cup OtherTexts
    \cup ValidationTexts
    \cup LadderTexts

\* the routes handed to score_routes: one route, or three
RoutesData == {<<<<"A">>>>, <<<<"A">>, <<"B">>, <<"C">>>>}

GeminiIdle ==
    /\ gs_pc = "idle"
    /\ gs_model = FALSE
    /\ gs_routes_data = <<>>
    /\ gs_attempt = 0
    /\ gs_calls = <<>>
    /\ gs_text = <<>>
    /\ gs_loads = <<>>
    /\ gs_parsed = PyNone
    /\ gs_validated = Returned(PyNone)
    /\ gs_result = PyNone

GeminiInit ==
    /\ gs_pc = "call"
    /\ gs_model \in BOOLEAN
    /\ gs_routes_data \in RoutesData
    /\ gs_attempt = 0
    /\ gs_calls = <<>>
    /\ gs_text = <<>>
    /\ gs_loads = <<>>
    /\ gs_parsed = PyNone
    /\ gs_validated = Returned(PyNone)
    /\ gs_result = PyNone

\* score_routes is entered: without a model it returns None
ScoreEnter ==
    /\ gs_pc = "call"
    /\ gs_pc' = IF gs_model THEN "generate" ELSE "done"
    /\ UNCHANGED <<gs_model, gs_routes_data, gs_attempt, gs_calls, gs_text, gs_loads, gs_parsed, gs_validated, gs_result>>

\* an attempt of generate_content fails; the last failure is raised, and
\* score_routes returns None
GenerateFails ==
    /\ gs_pc = "generate"
    /\ gs_attempt < max_retries
    /\ gs_attempt' = gs_attempt + 1
    /\ gs_calls' = Append(gs_calls, "error")
    /\ gs_pc' = IF gs_attempt + 1 < max_retries THEN "generate" ELSE "done"
    /\ UNCHANGED <<gs_model, gs_routes_data, gs_text, gs_loads, gs_parsed, gs_validated, gs_result>>

\* a mutant of GenerateAnswers: the loop does not break at an answer
GenerateAnswers_NoBreak ==
    /\ gs_pc = "generate"
    /\ gs_attempt < max_retries
    /\ gs_attempt' = gs_attempt + 1
    /\ \E text \in ResponseTexts :
        /\ gs_text' = text
        /\ gs_pc' = IF gs_attempt + 1 < max_retries THEN "generate"
                    ELSE IF text = <<>> THEN "done" ELSE "extract"
    /\ gs_calls' = Append(gs_calls, "text")
    /\ UNCHANGED <<gs_model, gs_routes_data, gs_loads, gs_parsed, gs_validated, gs_result>>

\* an attempt of generate_content answers; an empty text ends the call
GenerateAnswers ==
    /\ gs_pc = "generate"
    /\ gs_attempt < max_retries
    /\ \E text \in ResponseTexts :
        /\ gs_text' = text
        /\ gs_pc' = IF text = <<>> THEN "done" ELSE "extract"
    /\ gs_calls' = Append(gs_calls, "text")
    /\ UNCHANGED <<gs_model, gs_routes_data, gs_attempt, gs_loads, gs_parsed, gs_validated, gs_result>>

\* parsed = self._extract_json_from_text(response_text); None ends the call
ExtractJson ==
    /\ gs_pc = "extract"
    /\ gs_loads' = LoadsCalls(gs_text)
    /\ LET parsed == extract_json_from_text(gs_text)
       IN  /\ gs_parsed' = IF IsNone(parsed) THEN PyNone ELSE parsed
           /\ gs_pc' = IF IsNone(parsed) THEN "done" ELSE "validate"
    /\ UNCHANGED <<gs_model, gs_routes_data, gs_attempt, gs_calls, gs_text, gs_validated, gs_result>>

\* validated = self._validate_scores(parsed, routes_data); an exception is
\* caught, and score_routes returns None
ValidateScores ==
    /\ gs_pc = "validate"
    /\ gs_validated' = validate_scores(gs_parsed)
    /\ gs_result' = gs_validated'.value
    /\ gs_pc' = "done"
    /\ UNCHANGED <<gs_model, gs_routes_data, gs_attempt, gs_calls, gs_text, gs_loads, gs_parsed>>

(***************************************************************************)
(* The specifications: one request to analyze_routes (Spec), one call of   *)
(* RoadSafetyScorer.calculate (SpecScorer), one call of                    *)
(* GeminiResilienceScorer.score_routes (SpecGemini).                       *)
(***************************************************************************)
vars == <<plvars, scvars, gsvars>>

Init == PipelineInit /\ ScorerIdle /\ GeminiIdle
Next ==
    \/ (GetRoutesPrimary /\ UNCHANGED <<scvars, gsvars>>)
    \/ (GetRoutesFallback /\ UNCHANGED <<scvars, gsvars>>)
    \/ (CheckRoutes /\ UNCHANGED <<scvars, gsvars>>)
    \/ (Analyze /\ UNCHANGED <<scvars, gsvars>>)
    \/ (SafetyRoute /\ UNCHANGED <<scvars, gsvars>>)
    \/ (Scores /\ UNCHANGED <<scvars, gsvars>>)
    \/ (Summarize /\ UNCHANGED <<scvars, gsvars>>)
    \/ (Combine /\ UNCHANGED <<scvars, gsvars>>)
Spec == Init /\ [][Next]_vars

InitScorer == ScorerInit /\ PipelineIdle /\ GeminiIdle
NextScorer ==
    \/ (CalcEnter /\ UNCHANGED <<plvars, gsvars>>)
    \/ (CalcSegment /\ UNCHANGED <<plvars, gsvars>>)
    \/ (CalcReturn /\ UNCHANGED <<plvars, gsvars>>)
SpecScorer == InitScorer /\ [][NextScorer]_vars

InitGemini == GeminiInit /\ PipelineIdle /\ ScorerIdle
NextGemini ==
    \/ (ScoreEnter /\ UNCHANGED <<plvars, scvars>>)
    \/ (GenerateFails /\ UNCHANGED <<plvars, scvars>>)
    \/ (GenerateAnswers /\ UNCHANGED <<plvars, scvars>>)
    \/ (ExtractJson /\ UNCHANGED <<plvars, scvars>>)
    \/ (ValidateScores /\ UNCHANGED <<plvars, scvars>>)
SpecGemini == InitGemini /\ [][NextGemini]_vars

(***************************************************************************)
(* Claims about RoadSafetyScorer.calculate, under SpecScorer.              *)
(***************************************************************************)
\* the segments have been scored and calculate has returned
ScorerDone == sc_pc = "done"

\* the total length of the segments given
RECURSIVE LengthSum(_)
LengthSum(segs) ==
    IF segs = <<>> THEN 0 ELSE Head(segs).length_m + LengthSum(Tail(segs))

\* the weather request in force for segment k (from 1): the latest one made
\* at or before its iteration
RequestInForce(k) ==
    CHOOSE c \in 1..Len(sc_weather_calls) :
        /\ sc_weather_calls[c].i <= k - 1
        /\ \A e \in 1..Len(sc_weather_calls) :
               sc_weather_calls[e].i <= k - 1 => e <= c

RiskInForce(k) ==
    get_weather_at_point(sc_weather_calls[RequestInForce(k)].resp).weather_risk_score

\* sum_i (base_quality_i - 100 * weather_risk_i) * length_i, as a rational
SafetyNumerator ==
    RSum([k \in 1..Len(sc_segments) |->
            RMul(RSub(R(sc_road[k].base_quality), RMul(R(100), RiskInForce(k))),
                 R(sc_segments[k].length_m))])

\* clamp(x, 0, 1)
ClampUnit(x) == IF RLt(x, R(0)) THEN R(0) ELSE IF RLt(R(1), x) THEN R(1) ELSE x

ScenarioA ==
    /\ Len(sc_segments) = 2
    /\ \A k \in 1..2 :
        /\ sc_road[k].base_quality = 80
        /\ sc_segments[k].length_m = 1000
        /\ RiskInForce(k) = Rat(1, 10)

C5_ScoresInUnitInterval ==
    (ScorerDone /\ Len(sc_segments) > 0 /\ LengthSum(sc_segments) > 0) =>
        /\ RLe(R(0), sc_result.road_safety_score)
        /\ RLe(sc_result.road_safety_score, R(1))
        /\ RLe(R(0), sc_result.road_analysis.road_quality_score)
        /\ RLe(sc_result.road_analysis.road_quality_score, R(1))

\* a route whose unclamped safety sum is negative was scored
C5_Witness_NegativeSum ==
    /\ ScorerDone
    /\ Len(sc_segments) > 0
    /\ LengthSum(sc_segments) > 0
    /\ RLt(SafetyNumerator, R(0))
    /\ sc_result.road_safety_score = R(0)

\* C6: with zero segments calculate returns the fixed default (score 0.5,
\* empty weather and road analyses), asks neither provider and computes
\* nothing (no loop iteration, no division).
C6_EmptyRouteDefault ==
    (ScorerDone /\ Len(sc_road) = 0) =>
        /\ sc_result.road_safety_score = Rat(1, 2)
        /\ sc_result.weather_analysis = EmptyDict
        /\ sc_result.road_analysis = EmptyDict
        /\ sc_road_calls = <<>>
        /\ sc_weather_calls = <<>>
        /\ sc_loc = CalcLocals

\* calculate has returned for a route without segments
C6_Witness_EmptyRoute == ScorerDone /\ Len(sc_road) = 0 /\ sc_segments = <<>>

\* the iterations of the loop made so far
Iterations == Len(sc_loc.segment_results)

\* C18: over n >= 1 segments the weather provider is asked exactly at the
\* segments of index i with i mod 10 = 0, ceil(n/10) times in all; every
\* other segment i uses the sample taken at index 10*floor(i/10); the road
\* provider is asked exactly once per segment; and a weather sample exists
\* before the first scoring term is computed.
C18_WeatherSampling ==
    /\ sc_pc \in {"loop", "done"} =>
        /\ Len(sc_weather_calls) = (Iterations + 9) \div 10
        /\ \A c \in 1..Len(sc_weather_calls) : sc_weather_calls[c].i = 10 * (c - 1)
        /\ \A i \in 0..(Iterations - 1) :
               /\ (i % 10 = 0) <=> (\E c \in 1..Len(sc_weather_calls) :
                                        sc_weather_calls[c].i = i)
               /\ sc_loc.weather_data_list[i + 1].sample_id = 10 * (i \div 10)
               /\ sc_loc.weather_data_list[i + 1] =
                      Update(get_weather_at_point(
                                 sc_weather_calls[(i \div 10) + 1].resp),
                             [sample_id |-> 10 * (i \div 10),
                              location |-> sc_segments[10 * (i \div 10) + 1].mid])
        /\ sc_road_calls = [k \in 1..Iterations |-> k - 1]
        /\ Iterations >= 1 => (sc_loc.w_bound /\ sc_weather_calls[1].i = 0)
    /\ (ScorerDone /\ Len(sc_road) >= 1) =>
        /\ Iterations = Len(sc_road)
        /\ Len(sc_weather_calls) = (Len(sc_road) + 9) \div 10

\* a route of more than ten segments was scored with two weather samples
C18_Witness_SecondSample ==
    /\ ScorerDone
    /\ Len(sc_road) > 10
    /\ Len(sc_weather_calls) = 2
    /\ sc_weather_calls[1].resp # sc_weather_calls[2].resp

\* the samples the weather provider gave, one per request
Samples ==
    [c \in 1..Len(sc_weather_calls) |-> get_weather_at_point(sc_weather_calls[c].resp)]

\* the mean of a field over the samples
SampleMean(f) == RDiv(RSum(Column(Samples, f)), R(Len(Samples)))

\* C20: the weather analysis calculate returns reports, for rainfall,
\* windspeed, visibility, temperature, cloudcover, weather risk and the
\* three sub-risks, the mean over the weather points actually sampled, one
\* value per request, not a mean that counts a sample once for every
\* segment that reuses it.
C20_MeanOverSamples ==
    (ScorerDone /\ Len(sc_road) >= 1) =>
        /\ sc_result.weather_analysis.avg_rainfall = SampleMean("rainfall_mm")
        /\ sc_result.weather_analysis.avg_windspeed = SampleMean("windspeed")
        /\ sc_result.weather_analysis.avg_visibility = SampleMean("visibility_m")
        /\ sc_result.weather_analysis.avg_temperature = SampleMean("temperature")
        /\ sc_result.weather_analysis.avg_cloudcover =
               (LET total == RSum([c \in 1..Len(Samples) |-> R(Samples[c].cloudcover)])
                IN  total.n \div (total.d * Len(Samples)))
        /\ sc_result.weather_analysis.avg_weather_risk = SampleMean("weather_risk_score")
        /\ sc_result.weather_analysis.visibility_risk = SampleMean("visibility_risk")
        /\ sc_result.weather_analysis.rain_risk = SampleMean("rain_risk")
        /\ sc_result.weather_analysis.wind_risk = SampleMean("wind_risk")

\* the quality of segment k less its weather risk in percent
Adjusted(k) == RSub(R(sc_road[k].base_quality), RMul(R(100), RiskInForce(k)))

\* sum_i max(0, base_quality_i - 100 * weather_risk_i) * length_i
QualityNumerator ==
    RSum([k \in 1..Len(sc_segments) |->
            IF RLt(Adjusted(k), R(0)) THEN R(0)
            ELSE RMul(Adjusted(k), R(sc_segments[k].length_m))])

\* C21: for a non-empty segment list of total length > 0,
\* road_quality_score is
\* clamp(sum_i max(0, base_quality_i - 100*risk_i) * length_i / (100 * sum_i length_i), 0, 1):
\* a segment whose weather risk exceeds its quality contributes 0, not a
\* negative amount.
C21_RoadQualityFormula ==
    (ScorerDone /\ Len(sc_segments) > 0 /\ LengthSum(sc_segments) > 0) =>
        sc_result.road_analysis.road_quality_score =
            ClampUnit(RDiv(QualityNumerator, R(100 * LengthSum(sc_segments))))

\* a route was scored in which one segment's weather risk exceeds its
\* quality and another segment's does not
C21_Witness_FlooredSegment ==
    /\ ScorerDone
    /\ LengthSum(sc_segments) > 0
    /\ \E k \in 1..Len(sc_segments) :
           RLt(Adjusted(k), R(0)) /\ sc_segments[k].length_m > 0
    /\ RLt(R(0), sc_result.road_analysis.road_quality_score)
    /\ RLt(sc_result.road_safety_score, sc_result.road_analysis.road_quality_score)

\* x lies in [lo, hi]
Within(x, lo, hi) == RLe(R(lo), x) /\ RLe(x, R(hi))

\* C22: every sample get_weather_at_point returns, for any numeric
\* precipitation and windspeed the provider reports and for the failure
\* default, has rainfall_mm >= 0, windspeed >= 0, visibility_m in
\* [100, 10000], visibility_risk, rain_risk and wind_risk in [0, 1], and a
\* weather_risk_score in [0, 1] that is the mean of the three sub-risks.
C22_SampleRanges ==
    \A c \in 1..Len(sc_weather_calls) :
        /\ RLe(R(0), Samples[c].rainfall_mm)
        /\ RLe(R(0), Samples[c].windspeed)
        /\ Within(Samples[c].visibility_m, 100, 10000)
        /\ Within(Samples[c].visibility_risk, 0, 1)
        /\ Within(Samples[c].rain_risk, 0, 1)
        /\ Within(Samples[c].wind_risk, 0, 1)
        /\ Within(Samples[c].weather_risk_score, 0, 1)
        /\ RMul(R(3), Samples[c].weather_risk_score) =
               RAdd(Samples[c].visibility_risk,
                    RAdd(Samples[c].rain_risk, Samples[c].wind_risk))

\* every weather request of the call failed
AllFetchesFailed ==
    \A c \in 1..Len(sc_weather_calls) : ~sc_weather_calls[c].resp.ok

\* sum_i base_quality_i * length_i
QualityAlone ==
    RSum([k \in 1..Len(sc_segments) |->
            R(sc_road[k].base_quality * sc_segments[k].length_m)])

\* C23: a failed or timed-out weather fetch does not leave the scorer:
\* scoring goes on with the neutral default sample (visibility 10000 m,
\* temperature 20, cloudcover 30, all risks 0), so a route whose weather
\* fetches all fail has weather_risk_score 0 for every segment and a safety
\* score set by road quality alone.
C23_FailedFetchNeutral ==
    (ScorerDone /\ Len(sc_road) >= 1 /\ AllFetchesFailed) =>
        /\ Len(sc_result.weather_analysis.weather_data) = Len(sc_road)
        /\ \A k \in 1..Len(sc_road) :
            LET w == sc_result.weather_analysis.weather_data[k]
            IN  /\ w.visibility_m = R(10000)
                /\ w.temperature = R(20)
                /\ w.cloudcover = 30
                /\ w.visibility_risk = R(0)
                /\ w.rain_risk = R(0)
                /\ w.wind_risk = R(0)
                /\ w.weather_risk_score = R(0)
        /\ LengthSum(sc_segments) > 0 =>
               sc_result.road_safety_score =
                   ClampUnit(RDiv(QualityAlone, R(100 * LengthSum(sc_segments))))

\* the keys the Segmenter gives a segment, and those the scorer may add
SegmenterKeys == {"start", "end", "mid", "length_m"}
ScorerKeys == {"road_type", "road_width", "base_quality", "weather"}

\* segment after has the Segmenter's keys of segment before, with their values
KeepsGeometry(before, after) ==
    \A f \in SegmenterKeys :
        f \in DOMAIN before => (f \in DOMAIN after /\ after[f] = before[f])

NoRiskAboveQuality ==
    \A k \in 1..Len(sc_segments) :
        RLe(RMul(R(100), RiskInForce(k)), R(sc_road[k].base_quality))

\* C25: for a segment list of total length > 0 and non-negative lengths the
\* road_quality_score calculate returns is greater than or equal to the
\* road_safety_score of the same call, and equal to it whenever no
\* segment's weather risk (scaled to 0-100) exceeds its base quality.
C25_QualityAtLeastSafety ==
    (ScorerDone /\ Len(sc_segments) > 0 /\ LengthSum(sc_segments) > 0) =>
        /\ RLe(sc_result.road_safety_score, sc_result.road_analysis.road_quality_score)
        /\ NoRiskAboveQuality =>
               sc_result.road_safety_score = sc_result.road_analysis.road_quality_score

\* a route under weather of positive risk, none above a segment's quality,
\* was scored: the two scores are equal and strictly between 0 and 1
C25_Witness_EqualScores ==
    /\ ScorerDone
    /\ LengthSum(sc_segments) > 0
    /\ NoRiskAboveQuality
    /\ \E k \in 1..Len(sc_segments) : RLt(R(0), RiskInForce(k))
    /\ RLt(R(0), sc_result.road_safety_score)
    /\ RLt(sc_result.road_safety_score, R(1))
    /\ sc_result.road_safety_score = sc_result.road_analysis.road_quality_score

\* C29: degenerate routes get one neutral default: a non-empty segment list
\* whose lengths are all zero has the road_safety_score of a route without
\* segments (0.5), equal to its road_quality_score default, and no division
\* by zero happens.
C29_DegenerateDefault ==
    (ScorerDone /\ Len(sc_segments) > 0 /\ LengthSum(sc_segments) = 0) =>
        /\ sc_result.road_safety_score = default_result.road_safety_score
        /\ sc_result.road_safety_score = sc_result.road_analysis.road_quality_score

(***************************************************************************)
(* Claims about analyze_routes, under Spec.                                *)
(***************************************************************************)
Done == pc = "done"
Completed == Done /\ "analysis_complete" \in DOMAIN result /\ result.analysis_complete

\* C1: an error in the analysis of one route (here: a route that yields no
\* segments) does not abort the analysis of its siblings: the request
\* completes, the failing route is in the output with the default safety
\* score, and as many routes come out as were acquired.
C1_SiblingIsolation ==
    (Done /\ faulty # {}) =>
        /\ Completed
        /\ Len(result.routes) = Len(routes)
        /\ \A k \in faulty : result.routes[k].road_safety_score = Rat(1, 2)

\* whether a provider's answer holds no routes (None or an empty list)
Empty(resp) == resp.none \/ Len(resp.routes) = 0

\* the answer of the provider that answered
Answer == IF ~Empty(primary_resp) THEN primary_resp.routes
          ELSE IF fallback_calls = 1 /\ ~Empty(fallback_resp) THEN fallback_resp.routes
          ELSE <<>>

Acquired == pc \notin {"get_primary", "get_fallback"}

ScenarioB ==
    /\ Empty(primary_resp)
    /\ fallback_calls = 1
    /\ Len(fallback_resp.routes) = 2
    /\ max_alternatives >= 2

\* C2: the primary provider is asked first and exactly once; the fallback at
\* most once and only after the primary returned no routes; the result is
\* the first max_alternatives routes, in order, of the one provider that
\* answered, empty when both fail; when the primary returns nothing and the
\* fallback 2 routes, the pipeline goes on with those 2 and no error.
C2_RouteAcquisition ==
    /\ primary_calls <= 1
    /\ fallback_calls <= 1
    /\ fallback_calls = 1 => (primary_calls = 1 /\ Empty(primary_resp))
    /\ Acquired => primary_calls = 1
    /\ pc = "check_routes" =>
        /\ Len(routes) = IF max_alternatives < Len(Answer)
                         THEN max_alternatives ELSE Len(Answer)
        /\ \A k \in 1..Len(routes) : routes[k] = Answer[k]
    /\ (Acquired /\ ScenarioB /\ pc # "check_routes") =>
        /\ Len(routes) = 2
        /\ "error" \in DOMAIN result => result.error # "No routes found"
        /\ pc = "analyze" => result = PyNone

\* the fallback gave 2 routes after an empty primary and the analysis began
C2_Witness_ScenarioB == ScenarioB /\ pc = "analyze" /\ Len(routes) = 2

\* a provider's answer was cut to max_alternatives
C2_Witness_Truncated ==
    pc = "check_routes" /\ Len(routes) = max_alternatives /\ Len(routes) < Len(Answer)

\* C3: when both providers yield no routes, analyze_routes returns the error
\* result (routes [], resilience_scores null, analysis_complete false) and
\* invokes no analyzer, scorer, aggregator or summarizer.
C3_NoRoutesResult ==
    (Acquired /\ pc # "check_routes" /\ Len(Answer) = 0) =>
        /\ Done
        /\ result.routes = <<>>
        /\ result.resilience_scores = PyNone
        /\ result.analysis_complete = FALSE
        /\ "error" \in DOMAIN result
        /\ invoked = {}

\* both providers were asked and neither had a route
C3_Witness_BothEmpty ==
    Done /\ Empty(primary_resp) /\ fallback_calls = 1 /\ Empty(fallback_resp)
    /\ max_alternatives > 0

\* C7: whatever the summarizer does, analyze_routes completes with
\* analysis_complete = true and the full resilience ranking.
C7_SummarizerNonFatal ==
    (Done /\ "summarizer" \in invoked) =>
        /\ Completed
        /\ result.resilience_scores # PyNone
        /\ Len(result.routes) = Len(routes)

\* C10: for a response in code fences (with or without the json tag, with
\* or without whitespace after the closing fence) that holds valid JSON for
\* some of the routes, generate_summary returns the records of exactly those
\* routes, and every other route has the default narrative fields.
C10_FencedPartialSummary ==
    \A tagged \in BOOLEAN, trailing \in BOOLEAN :
        (/\ pc \in {"combine", "done"}
         /\ summ_outcome.key
         /\ ~summ_outcome.raises
         /\ summ_outcome.text = Fenced(tagged, trailing, Payload1)) =>
            /\ SameValue(gemini_results, json_loads(Payload1).val)
            /\ Done =>
                /\ Completed
                /\ \A k \in 1..Len(routes) :
                       routes[k].route_name \notin DOMAIN json_loads(Payload1).val.v =>
                           /\ result.routes[k].gemini_analysis.short_summary
                                  = JStr(AnalysisPending)
                           /\ result.routes[k].gemini_analysis.reasoning
                                  = JStr(NotAvailable)

\* the summarizer answered the text, and analyze_routes has completed
Summarized(text) ==
    /\ Completed
    /\ summ_outcome.key
    /\ ~summ_outcome.raises
    /\ summ_outcome.text = text

\* the entries of a list that are objects carrying both lat and lon, by
\* position, and the first two of them
ValidEntries(raw) ==
    {j \in 1..Len(raw) : raw[j].t = "obj" /\ {K_lat, K_lon} \subseteq DOMAIN raw[j].v}
FirstTwo(S) == {j \in S : Cardinality({i \in S : i < j}) < 2}

\* the k-th smallest position of a set of positions
Nth(S, k) == CHOOSE j \in S : Cardinality({i \in S : i < j}) = k - 1

\* a kept city is the entry it came from: its name (None if it has none), lat
\* and lon
SameCity(kept, entry) ==
    /\ SameValue(kept.lat, entry.v[K_lat])
    /\ SameValue(kept.lon, entry.v[K_lon])
    /\ SameValue(kept.name, IF K_name \in DOMAIN entry.v THEN entry.v[K_name] ELSE JNull)

\* the cities kept are the first two valid entries of the list, in order
KeepsFirstTwo(kept, raw) ==
    /\ Len(kept) <= 2
    /\ Len(kept) = Cardinality(FirstTwo(ValidEntries(raw)))
    /\ \A k \in 1..Len(kept) : SameCity(kept[k], raw[Nth(ValidEntries(raw), k)])

\* C13: for every list of intermediate_cities the generator returns, the
\* combined record of the route keeps only the entries that are objects
\* carrying both lat and lon, in their original order, and at most 2 of
\* them: the first two valid entries, wherever the invalid ones sit.
C13_IntermediateCitiesCap ==
    \A l \in CityLists :
        Summarized(CityPayload(l)) =>
            \A k \in 1..Len(result.routes) :
                routes[k].route_name = RouteName(1) =>
                    KeepsFirstTwo(result.routes[k].gemini_analysis.intermediate_cities,
                                  json_loads(l).val.v)

\* a list of six entries, three of them valid and two invalid ones before the
\* second valid one, was cut to its first two valid entries
C13_Witness_MixedList ==
    \E l \in CityLists :
        /\ Summarized(CityPayload(l))
        /\ Len(json_loads(l).val.v) = 6
        /\ \E k \in 1..Len(result.routes) :
               /\ routes[k].route_name = RouteName(1)
               /\ Len(result.routes[k].gemini_analysis.intermediate_cities) = 2

\* C14: route identity is never rewritten downstream: in the output of
\* analyze_routes the route_name of each enriched route is the name the
\* route carried after acquisition and naming, whatever the summarizer
\* returned for it.
C14_RouteIdentityKept ==
    Completed =>
        /\ Len(result.routes) = Len(routes)
        /\ \A k \in 1..Len(routes) :
               SameValue(result.routes[k].route_name, JStr(routes[k].route_name))

\* the values of an enriched route that are no narrative
NumericFields(r) ==
    <<r.distance_m, r.duration_s, r.predicted_duration_min, r.time_score,
      r.distance_score, r.carbon_score, r.road_segments, r.road_quality_score,
      r.avg_weather_risk, r.total_rainfall, r.road_type_distribution,
      r.road_safety_score, r.overall_resilience_score, r.component_scores,
      r.weighted_contributions, r.gemini_analysis.weather_risk_score,
      r.gemini_analysis.road_safety_score, r.gemini_analysis.carbon_score,
      r.gemini_analysis.overall_resilience_score>>

\* the enriched routes of the result carry the values of the reference
SameScores(reference) ==
    /\ ~reference.raised
    /\ Len(reference.value) = Len(result.routes)
    /\ \A k \in 1..Len(result.routes) :
           NumericFields(result.routes[k]) = NumericFields(reference.value[k])

\* C15: the numeric values do not depend on the summarizer: whenever
\* _combine_results completes, the time, distance, carbon, road-quality,
\* road-safety, resilience, component and weighted-contribution values of
\* every enriched route, the scores inside gemini_analysis included, are
\* those the same routes and analysis results give with a summarizer that
\* returned nothing; any two summarizer outputs therefore give the same.
C15_ScoresIndependentOfSummarizer ==
    Completed =>
        SameScores(combine_results(routes, time_results, distance_results,
                                   carbon_results, road_results, resilience_results,
                                   safety_scores, JObj(EmptyDict)))

\* a summarizer that returned scores of its own for Route 1, and a narrative
\* that made it into the output
C15_Witness_OwnScores ==
    /\ Summarized(PayloadScores)
    /\ \E k \in 1..Len(result.routes) :
           /\ routes[k].route_name = RouteName(1)
           /\ result.routes[k].gemini_analysis.short_summary = JStr(<<"s">>)
           /\ result.routes[k].road_safety_score # Rat(7, 100)

\* the routes have been named
Named == Acquired /\ pc # "check_routes" /\ routes # <<>>

\* the routes as acquired, before the naming
AsAcquired == Slice(Answer, 0, max_alternatives)

\* "Route N" for a position N below 10
OrdinalName(n) ==
    <<"R", "o", "u", "t", "e", " ">> \o <<(<<"1", "2", "3", "4", "5", "6", "7", "8", "9">>)[n]>>

\* C16: after acquisition, every route without a route_name, or with an
\* empty one, is named "Route N", N being its 1-based position in the
\* acquired list; a non-empty name the provider supplied is kept, and
\* nothing else of the route changes.
C16_RouteNaming ==
    Named =>
        /\ Len(routes) = Len(AsAcquired)
        /\ \A k \in 1..Len(routes) :
               /\ routes[k].route_name =
                      IF "route_name" \in DOMAIN AsAcquired[k]
                         /\ AsAcquired[k].route_name # <<>>
                      THEN AsAcquired[k].route_name
                      ELSE OrdinalName(k)
               /\ routes[k].distance_m = AsAcquired[k].distance_m
               /\ routes[k].duration_s = AsAcquired[k].duration_s

\* two routes were acquired, the first with a name the provider gave, the
\* second with an empty name, which became Route 2
C16_Witness_SecondUnnamed ==
    /\ Named
    /\ Len(routes) = 2
    /\ "route_name" \in DOMAIN AsAcquired[1] /\ AsAcquired[1].route_name # <<>>
    /\ "route_name" \in DOMAIN AsAcquired[2] /\ AsAcquired[2].route_name = <<>>
    /\ routes[2].route_name = OrdinalName(2)

\* the context for the summarizer has been built
ContextBuilt == pc \in {"summarize", "combine", "done"} /\ temp_routes_data # <<>>

\* C17: the resilience results keep the order of the route list: the i-th
\* result carries the i-th route name, so the positional pairing of the
\* summarizer context gives every route its own overall_resilience_score
\* and component_scores, those of the result that carries its name.
C17_ResilienceOrderPreserved ==
    ContextBuilt =>
        /\ Len(resilience_results) = Len(routes)
        /\ Len(temp_routes_data) = Len(routes)
        /\ \A i \in 1..Len(routes) :
               /\ resilience_results[i].route_name = routes[i].route_name
               /\ temp_routes_data[i].route_name = routes[i].route_name
               /\ \A j \in 1..Len(resilience_results) :
                      resilience_results[j].route_name = routes[i].route_name =>
                          /\ temp_routes_data[i].overall_resilience_score
                                 = resilience_results[j].overall_resilience_score
                          /\ temp_routes_data[i].component_scores
                                 = resilience_results[j].component_scores

\* two routes of different names and different resilience scores went into
\* the context
C17_Witness_TwoScores ==
    /\ ContextBuilt
    /\ Len(routes) = 2
    /\ routes[1].route_name # routes[2].route_name
    /\ temp_routes_data[1].overall_resilience_score
           # temp_routes_data[2].overall_resilience_score

\* the routes of the result that carry the name best_route
BestRoutes ==
    { k \in 1..Len(result.routes) :
        SameValue(result.routes[k].route_name, JStr(result.best_route)) }

\* C26: in every successful result of analyze_routes, best_route is the
\* route_name of exactly one of the routes of the returned list, whatever
\* the summarizer returned.
C26_BestRouteListed ==
    Completed => Cardinality(BestRoutes) = 1

\* the names of the batch are pairwise distinct
DistinctNames ==
    \A j, k \in 1..Len(routes) :
        j # k => routes[j].route_name # routes[k].route_name

\* C30: after the naming step of analyze_routes the route names are
\* pairwise distinct within the batch, for every mix of names the provider
\* supplied and names it left out, so that a lookup by name (here the time,
\* distance and carbon tables) gives a route its own scores and not those
\* of another route.
C30_NamesDistinct ==
    /\ Named => DistinctNames
    /\ Completed =>
        \A k \in 1..Len(result.routes) :
            /\ result.routes[k].time_score = TimeAnalyze(routes)[k].time_score
            /\ result.routes[k].distance_score = DistanceAnalyze(routes)[k].distance_score
            /\ result.routes[k].carbon_score = CarbonAnalyze(routes)[k].carbon_score

(***************************************************************************)
(* Claims about GeminiResilienceScorer, under SpecGemini.                  *)
(***************************************************************************)
\* the response text went through _extract_json_from_text
Extracted == gs_text # <<>> /\ gs_pc \in {"validate", "done"}

\* the five scores of the first validated route
ScoreFields == <<K_weather_risk_score, K_road_safety_score, K_social_risk_score,
                 K_traffic_risk_score, K_overall_resilience_score>>
ScoresOut == [k \in 1..5 |-> gs_result.v[K_routes].v[1].v[ScoreFields[k]]]

\* the literals of a finite number below 0, of one above 100, and of values
\* that are no number
BelowZero == {<<"-", "5">>}
AboveHundred == {<<"1", "5", "0">>, <<"1", "0", "0", ".", "5">>, <<"1", "e", "3">>}
NonNumeric == {<<"\"", "a", "b", "c", "\"">>, <<"n", "u", "l", "l">>, <<"[", "1", "]">>}

\* C8: for every value a generator can supply for a score field,
\* _validate_scores does not fail and yields an integer in [0,100]: 0 for a
\* finite number below 0, 100 for one above 100, 50 for a non-numeric or
\* missing value.
C8_ClampLaw ==
    \A l \in ScoreLiterals :
        (gs_pc = "done" /\ gs_text \in {ScoreText(l), NoScoreText}) =>
            /\ ~gs_validated.raised
            /\ ~IsNone(gs_result)
            /\ \A k \in 1..5 : ScoresOut[k].t = "num" /\ ScoresOut[k].v \in 0..100
            /\ \A k \in 1..4 : ScoresOut[k] = JNum(50)
            /\ (gs_text = ScoreText(l) /\ l \in BelowZero) => ScoresOut[5] = JNum(0)
            /\ (gs_text = ScoreText(l) /\ l \in AboveHundred) => ScoresOut[5] = JNum(100)
            /\ (gs_text = ScoreText(l) /\ l \in NonNumeric) => ScoresOut[5] = JNum(50)
            /\ gs_text = NoScoreText => ScoresOut[5] = JNum(50)

\* C9: from a text that is no JSON but holds a valid JSON object as its
\* first brace-delimited block, _extract_json_from_text returns that object,
\* whatever its strings hold; an object valid except for single-quoted
\* strings or trailing commas is returned repaired.
C9_ExtractEmbedded ==
    /\ \A w \in Wrappers, o \in EmbeddedObjects :
           (Extracted /\ gs_text = Wrap(w, o)) =>
               SameValue(gs_parsed, json_loads(o).val)
    /\ \A c \in RepairCases :
           (Extracted /\ gs_text = c.broken) =>
               SameValue(gs_parsed, json_loads(c.repaired).val)


\* _validate_scores returned a dictionary, which score_routes returned
Validated == gs_pc = "done" /\ ~IsNone(gs_result)

\* a second strict parse of the text gives what the first extraction gave
SameParse(direct) ==
    direct.ok => IF IsNone(direct.val) THEN IsNone(gs_parsed)
                 ELSE SameValue(gs_parsed, direct.val)

\* a second validation returns the four fields of the first unchanged
Unchanged(again) ==
    /\ ~again.raised
    /\ \A key \in {K_routes, K_ranked_routes, K_best_route_name, K_reason_for_selection} :
           SameValue(again.value.v[key], gs_result.v[key])
    /\ SameValue(again.value, gs_result)

\* C11: parsing the same valid strict-JSON text a second time gives the
\* structure the first parse gave, and _validate_scores applied to its own
\* output returns that output unchanged: routes, ranked_routes,
\* best_route_name and reason_for_selection are all equal.
C11_ValidationIdempotent ==
    /\ Extracted => SameParse(json_loads(gs_text))
    /\ Validated => Unchanged(validate_scores(gs_result))

\* a strict-JSON response that the first validation changed (scores clamped,
\* defaults filled in) has been validated
C11_Witness_Normalized ==
    /\ Validated
    /\ gs_text \in ValidationTexts
    /\ ~SameValue(gs_result, gs_parsed)

\* the response held no ranked_routes, and _validate_scores returned
NoRankingGiven == Validated /\ K_ranked_routes \notin DOMAIN gs_parsed.v

\* the ranking _validate_scores returned, and the validated routes
Synthesized == gs_result.v[K_ranked_routes].v
ValidatedOut == gs_result.v[K_routes].v

\* how often a known route is in the ranking, and where it is in routes_data
Occurrences(name) ==
    Cardinality({k \in 1..Len(Synthesized) : SameValue(Synthesized[k], JStr(name))})
InputIndex(entry) ==
    CHOOSE k \in 1..Len(gs_routes_data) : SameValue(entry, JStr(gs_routes_data[k]))

\* C12: when the response has no ranking list, the ranking _validate_scores
\* returns holds every route of routes_data exactly once, in descending
\* order of overall_resilience_score, routes of equal score in input order.
C12_SynthesizedRanking ==
    NoRankingGiven =>
        /\ \A k \in 1..Len(gs_routes_data) : Occurrences(gs_routes_data[k]) = 1
        /\ Len(Synthesized) = Len(gs_routes_data)
        /\ \A a, b \in 1..Len(Synthesized) :
               a < b => OverallOf(ValidatedOut, Synthesized[a])
                            >= OverallOf(ValidatedOut, Synthesized[b])
        /\ \A a, b \in 1..Len(Synthesized) :
               (a < b /\ OverallOf(ValidatedOut, Synthesized[a])
                             = OverallOf(ValidatedOut, Synthesized[b]))
                   => InputIndex(Synthesized[a]) < InputIndex(Synthesized[b])

\* the opening braces less the closing ones in text[s..e]
Depth(text, s, e) ==
    Cardinality({k \in s..e : text[k] = "{"}) - Cardinality({k \in s..e : text[k] = "}"})

\* the positions of the first opening brace of a text (0: it has none), and
\* of the first closing brace after it at which the depth is back to zero
\* (0: there is none)
FirstOpen(text) ==
    IF \E k \in 1..Len(text) : text[k] = "{"
    THEN CHOOSE k \in 1..Len(text) :
             text[k] = "{" /\ \A j \in 1..(k - 1) : text[j] # "{"
    ELSE 0
FirstClose(text, s) ==
    IF s > 0 /\ \E e \in s..Len(text) : text[e] = "}" /\ Depth(text, s, e) = 0
    THEN CHOOSE e \in s..Len(text) :
             /\ text[e] = "}" /\ Depth(text, s, e) = 0
             /\ \A j \in s..(e - 1) : ~(text[j] = "}" /\ Depth(text, s, j) = 0)
    ELSE 0

\* the ladder on a text whose first block is text[s..e] (e = 0: no block):
\* the attempts are made in order, each only after the earlier ones failed,
\* and the first that succeeds gives the result
Ladder(text, s, e) ==
    /\ Len(gs_loads) \in 1..3
    /\ gs_loads[1] = text
    /\ Len(gs_loads) >= 2 =>
           /\ ~json_loads(text).ok
           /\ e > 0
           /\ gs_loads[2] = SubSeq(text, s, e)
    /\ Len(gs_loads) = 3 =>
           /\ ~json_loads(gs_loads[2]).ok
           /\ gs_loads[3] = Cleaned(gs_loads[2])
    /\ (Len(gs_loads) = 1 /\ ~json_loads(text).ok) => e = 0
    /\ (Len(gs_loads) = 2) => json_loads(gs_loads[2]).ok
    /\ IF json_loads(gs_loads[Len(gs_loads)]).ok
          /\ ~IsNone(json_loads(gs_loads[Len(gs_loads)]).val)
       THEN SameValue(gs_parsed, json_loads(gs_loads[Len(gs_loads)]).val)
       ELSE IsNone(gs_parsed)

\* C19: _extract_json_from_text makes at most three strict parses, in this
\* order: the whole text; the substring from the first opening brace to the
\* first closing brace at which the depth is back to zero; that substring
\* after quote normalization and trailing-comma removal. It returns what the
\* first successful one gives, tries no later block, and returns None when
\* the text has no opening brace, no balanced block, or every parse fails.
C19_ParseLadder ==
    Extracted => Ladder(gs_text, FirstOpen(gs_text), FirstClose(gs_text, FirstOpen(gs_text)))

\* all three parses were made, and the third gave the result
C19_Witness_ThirdAttempt ==
    /\ Extracted
    /\ Len(gs_loads) = 3
    /\ ~IsNone(gs_parsed)

\* value is the route_name of one of the validated routes
NamesValidated(value) ==
    \E k \in 1..Len(ValidatedOut) :
        SameValue(value, ValidatedOut[k].v[K_route_name])

\* C27: in every result of _validate_scores, best_route_name is None (only
\* when there are no validated routes) or the route_name of a validated
\* route, and every name in ranked_routes is the route_name of a validated
\* route, whatever ranked_routes and best_route_name the generator supplied.
C27_NamesOfValidatedRoutes ==
    Validated =>
        /\ IF IsNone(gs_result.v[K_best_route_name])
           THEN ValidatedOut = <<>>
           ELSE NamesValidated(gs_result.v[K_best_route_name])
        /\ gs_result.v[K_ranked_routes].t = "arr"
        /\ \A j \in 1..Len(gs_result.v[K_ranked_routes].v) :
               NamesValidated(gs_result.v[K_ranked_routes].v[j])

\* score_routes has returned
ScoreReturned == gs_pc = "done"

\* the call of generate_content that answered, if one did
Answered == gs_calls # <<>> /\ gs_calls[Len(gs_calls)] = "text"

\* C28: score_routes calls the generator at most 3 times per request, stops
\* calling at the first attempt that returns without error, makes no call
\* when the model is not initialized, and never raises: when all 3 attempts
\* fail, the response text is empty, or parsing or validation fails, it
\* returns None.
C28_GeneratorCalls ==
    /\ Len(gs_calls) <= 3
    /\ \A k \in 1..(Len(gs_calls) - 1) : gs_calls[k] = "error"
    /\ ~gs_model => gs_calls = <<>>
    /\ gs_pc = "generate" => (~Answered /\ Len(gs_calls) < 3)
    /\ ScoreReturned =>
        /\ (gs_model /\ ~Answered) => Len(gs_calls) = 3
        /\ (~gs_model \/ ~Answered \/ gs_text = <<>> \/ IsNone(gs_parsed)
              \/ gs_validated.raised) => IsNone(gs_result)
        /\ ~IsNone(gs_result) =>
               (~gs_validated.raised /\ SameValue(gs_result, gs_validated.value))

\* two attempts failed, the third answered, and score_routes returned the
\* validated scores
C28_Witness_ThirdCallAnswers ==
    /\ ScoreReturned
    /\ gs_calls = <<"error", "error", "text">>
    /\ ~IsNone(gs_result)

====
